---- MODULE Spec2Model ----
(***************************************************************************)
(* Definition resolution and project traversal engine of LaTeX-Ast-Gen.   *)
(*                                                                         *)
(* The module models                                                       *)
(*   - DefinitionHandler  (src/src/core/DefinitionHandler.ts): the four    *)
(*     command categories, the three environment categories, the merged    *)
(*     views and the insertion operations;                                 *)
(*   - FileContentParser.parseFileContent (src/unnamed/part_003): the      *)
(*     per-file multi-pass pipeline, one action per stage;                 *)
(*   - ProjectProcessor.parse (src/unnamed/part_004): root determination,  *)
(*     the queue-based traversal and the construction of the result.       *)
(*                                                                         *)
(* A MacroInfoRecord / EnvInfoRecord is a function from a finite set of    *)
(* names to signatures; a signature is the sequence of its tokens          *)
(* ("o m" is <<"o", "m">>).  Canonical paths are the numbers 1..NPaths.    *)
(* The text of a file is represented by what the external collaborators   *)
(* and the extractors return for it, chosen when the stage runs.           *)
(***************************************************************************)
EXTENDS Integers, Sequences, FiniteSets, TLC

\* ------------------------------------------------------------------------
\* Bounds of the model
\* ------------------------------------------------------------------------

\* number of canonical paths of the modelled file system
NPaths == 3

\* largest number of include references extracted from one file
MaxIncl == 2

\* largest number of brace groups following an undeclared command
MaxArity == 1

\* largest number of sibling nodes in the content of a modelled tree
MaxNodes == 5

\* largest number of environment declarations in one modelled file
MaxDecls == 3

\* largest number of characters in the text of an argument-count argument
MaxCountLen == 2

Paths == 1..NPaths

\* command names that occur in the modelled documents and option tables:
\* "frac" is in the built-in default table, "foo" is not
ModelNames == {"frac", "foo"}

\* signatures that documents and option tables give to ModelNames
SigPool == {<<"m">>, <<"o", "m">>}

\* environment names declared by the modelled documents and option tables:
\* "itemize" is in the built-in table, "thm" is not
ModelEnvNames == {"thm", "itemize"}

\* signatures of the modelled environment declarations
EnvSigPool == {<<>>, <<"m">>}

NULL == "null"
TREE == "tree"
UNDEF == "undefined"
NoPath == 0

\* an optional value: absent (undefined) or present
None == {}

Some(v) == {v}

Value(opt) == CHOOSE v \in opt : TRUE

\* ------------------------------------------------------------------------
\* Records (JavaScript objects used as name -> info tables)
\* ------------------------------------------------------------------------

EmptyRecord == [n \in {} |-> <<>>]

\* all tables over the given names with the given signatures
RecordsOver(names, sigs) == UNION {[d -> sigs] : d \in SUBSET names}

MacroRecords == RecordsOver(ModelNames, SigPool)

EnvRecords == RecordsOver(ModelEnvNames, EnvSigPool)

\* object spread { ...a, ...b } and Object.assign(a, b): b's entries win
Spread(a, b) ==
  [n \in (DOMAIN a) \cup (DOMAIN b) |-> IF n \in DOMAIN b THEN b[n] ELSE a[n]]

Range(s) == {s[i] : i \in 1..Len(s)}

\* the signature of N mandatory parameters
Mandatory(n) == [i \in 1..n |-> "m"]

VARIABLES
  pc,                       \* position of the run
  defaultMacros,            \* DefinitionHandler.defaultMacros
  userProvidedMacros,       \* DefinitionHandler.userProvidedMacros
  definedInDocMacros,       \* DefinitionHandler.definedInDocMacros
  inferredUsedMacros,       \* DefinitionHandler.inferredUsedMacros
  ctanEnvs,                 \* DefinitionHandler.ctanEnvs
  userProvidedEnvs,         \* DefinitionHandler.userProvidedEnvs
  definedInDocEnvs,         \* DefinitionHandler.definedInDocEnvs
  lastCall,                 \* history: the last Store insertion and its argument
  fileSystem,               \* per path: "missing", "unreadable" or "ok"
  initialParserOptions,     \* parse: initialParserOptions, the options of the call
  filesToParseQueue,        \* parse: the FIFO queue
  parsedFilePaths,          \* ProjectProcessor.parsedFilePaths
  projectAstMap,            \* ProjectProcessor.projectAstMap
  projectFileErrors,        \* ProjectProcessor.projectFileErrors
  projectGlobalErrors,      \* ProjectProcessor.projectGlobalErrors
  currentRootFilePath,      \* ProjectProcessor.currentRootFilePath
  processingOrder,          \* parse: processingOrder
  currentFilePath,          \* parse: normalizedFilePath of the iteration
  ast,                      \* parseFileContent: ast
  macrosForFirstPass,       \* parseFileContent: macrosForFirstPass
  macrosForSecondPass,      \* parseFileContent: macrosForSecondPass
  finalMacrosForAttachment, \* parseFileContent: finalMacrosForAttachment
  currentlyKnownMacroNames, \* extractInferredUsedMacros: the known-name set
  parseResult,              \* parse: parseResult
  result,                   \* the ProjectAST returned by parse
  enqueueLog,               \* history: every push onto the queue, in order
  annotated,                \* history: paths handed to parseFileContent
  referenced,               \* history: include references <<file, target>>
  docNamesEarlier,          \* history: names registered in stage 2 by the files
                            \* processed before the current one
  docNamesCurrent,          \* history: names the current file registered
  stagesRun,                \* history: stages of the current file that ran
  threw,                    \* history: stages of the current file that threw
  failedFiles,              \* history: files whose read or raw parse failed
  pendingAtFailure,         \* history: paths queued when such a failure occurred
  entryObserved,            \* history: what determineRootFile observed for the
                            \* entry path, kept until the first dequeue
  usageObserved,            \* history: the command usage stage 7 found in the
                            \* current file, kept until stage 8 has run
  previousRun,              \* history: what the previous call of parse left
                            \* on the instance, kept until the root is determined
  fnArg,                    \* the argument of a function applied on its own
  fnResult                  \* its result, None before the application

storeVars == <<defaultMacros, userProvidedMacros, definedInDocMacros,
               inferredUsedMacros, ctanEnvs, userProvidedEnvs, definedInDocEnvs>>

processorVars == <<filesToParseQueue, parsedFilePaths, projectAstMap,
                   projectFileErrors, projectGlobalErrors, currentRootFilePath,
                   processingOrder, currentFilePath>>

parserVars == <<ast, macrosForFirstPass, macrosForSecondPass,
                finalMacrosForAttachment, currentlyKnownMacroNames,
                parseResult>>

historyVars == <<enqueueLog, annotated, referenced, docNamesEarlier,
                 docNamesCurrent, stagesRun, threw, failedFiles,
                 pendingAtFailure>>

pureVars == <<fnArg, fnResult>>

vars == <<pc, storeVars, lastCall, fileSystem, initialParserOptions,
          processorVars, parserVars,
          result, historyVars, entryObserved, usageObserved, previousRun,
          pureVars>>

\* ------------------------------------------------------------------------
\* DefinitionHandler
\* ------------------------------------------------------------------------

\* loadDefaultMacroSignatures: the built-in table
DefaultMacroSignatures ==
  [n \in {"documentclass", "usepackage", "input", "include", "subfile",
          "textbf", "textit", "texttt", "underline", "emph", "mathbb",
          "mathbf", "mathcal", "mathrm", "frac", "sqrt", "newcommand",
          "renewcommand", "DeclareMathOperator", "DeclarePairedDelimiter",
          "begin", "end", "item", "label", "ref", "eqref", "cite",
          "bibliography", "bibliographystyle", "includegraphics", "caption",
          "newcounter", "newenvironment", "renewenvironment",
          "provideenvironment", "newtheorem", "newtcolorbox",
          "DeclareTColorBox", "newlist"} |->
     CASE n \in {"documentclass", "usepackage", "sqrt", "cite", "caption"}
            -> <<"o", "m">>
       [] n \in {"frac"} -> <<"m", "m">>
       [] n \in {"newcommand", "renewcommand"} -> <<"m", "o", "o", "m">>
       [] n \in {"DeclareMathOperator"} -> <<"s", "m", "m">>
       [] n \in {"DeclarePairedDelimiter", "DeclareTColorBox", "newlist"}
            -> <<"m", "m", "m">>
       [] n \in {"begin", "newcounter"} -> <<"m", "o">>
       [] n \in {"item"} -> <<"o">>
       [] n \in {"includegraphics"} -> <<"o", "o", "m">>
       [] n \in {"newenvironment", "renewenvironment", "provideenvironment"}
            -> <<"m", "o", "o", "m", "m">>
       [] n \in {"newtheorem"} -> <<"s", "m", "o", "m">>
       [] n \in {"newtcolorbox"} -> <<"o", "m", "o", "o", "m">>
       [] OTHER -> <<"m">>]

\* loadCtanEnvironments: the flattened table of the external package data;
\* two of its entries stand for the whole table
CtanEnvironments == [n \in {"enumerate", "itemize"} |-> <<"o">>]

\* a merge that spreads the document-defined category before the
\* user-provided one
MergeMacroRecords_UserLast(inferred, default, user, doc) ==
  Spread(Spread(Spread(inferred, default), doc), user)

\* a merge that spreads the inferred category last
MergeMacroRecords_InferredLast(inferred, default, user, doc) ==
  Spread(Spread(Spread(default, user), doc), inferred)

\* mergeMacroRecords: inferred < default < user-provided < document-defined
MergeMacroRecords(inferred, default, user, doc) ==
  Spread(Spread(Spread(inferred, default), user), doc)

\* a merge that spreads the built-in category last
MergeEnvironmentRecords_CtanLast(ctan, user, doc) ==
  Spread(Spread(user, doc), ctan)

\* mergeEnvironmentRecords: ctan < user-provided < document-defined
MergeEnvironmentRecords(ctan, user, doc) == Spread(Spread(ctan, user), doc)

\* a merged view that leaves out the document-defined category
GetEffectiveMacroInfoRecord_NoDoc ==
  MergeMacroRecords(inferredUsedMacros, defaultMacros, userProvidedMacros,
                    EmptyRecord)

\* getEffectiveMacroInfoRecord
GetEffectiveMacroInfoRecord ==
  MergeMacroRecords(inferredUsedMacros, defaultMacros, userProvidedMacros,
                    definedInDocMacros)

\* getEffectiveEnvInfoRecord
GetEffectiveEnvInfoRecord ==
  MergeEnvironmentRecords(ctanEnvs, userProvidedEnvs, definedInDocEnvs)

\* an insertion test that forgets the document-defined category
InferredAccepted_NoDocCheck(rec, default, user, doc, inferred) ==
  {n \in DOMAIN rec : /\ n \notin DOMAIN default
                      /\ n \notin DOMAIN user
                      /\ n \notin DOMAIN inferred}

\* addInferredUsedMacros: the names of the argument that are inserted
InferredAccepted(rec, default, user, doc, inferred) ==
  {n \in DOMAIN rec : /\ n \notin DOMAIN default
                      /\ n \notin DOMAIN user
                      /\ n \notin DOMAIN doc
                      /\ n \notin DOMAIN inferred}

\* addInferredUsedMacros: the inferred category after the call
InferredAfterAdd(rec, default, user, doc, inferred) ==
  LET acc == InferredAccepted(rec, default, user, doc, inferred)
  IN  [n \in (DOMAIN inferred) \cup acc |->
         IF n \in acc THEN rec[n] ELSE inferred[n]]

\* a constructor that leaves the user-provided categories empty, to be filled
\* at some later point
HandlerFor_NoUserTables(config) ==
  [defaultMacros |-> IF config.loadDefaultMacros THEN DefaultMacroSignatures
                     ELSE EmptyRecord,
   userProvidedMacros |-> EmptyRecord,
   definedInDocMacros |-> EmptyRecord,
   inferredUsedMacros |-> EmptyRecord,
   ctanEnvs |-> CtanEnvironments,
   userProvidedEnvs |-> EmptyRecord,
   definedInDocEnvs |-> EmptyRecord]

\* the constructor: the categories of a fresh handler for a resolved config
HandlerFor(config) ==
  [defaultMacros |-> IF config.loadDefaultMacros THEN DefaultMacroSignatures
                     ELSE EmptyRecord,
   userProvidedMacros |-> config.customMacroRecord,
   definedInDocMacros |-> EmptyRecord,
   inferredUsedMacros |-> EmptyRecord,
   ctanEnvs |-> CtanEnvironments,
   userProvidedEnvs |-> config.customEnvironmentRecord,
   definedInDocEnvs |-> EmptyRecord]

\* an initialize that keeps the handler's document-defined and inferred
\* commands and only reloads the configured categories
NewHandler_KeepDeclared(config) ==
  LET h == HandlerFor(config)
  IN  /\ defaultMacros' = h.defaultMacros
      /\ userProvidedMacros' = h.userProvidedMacros
      /\ ctanEnvs' = h.ctanEnvs
      /\ userProvidedEnvs' = h.userProvidedEnvs
      /\ UNCHANGED <<definedInDocMacros, inferredUsedMacros, definedInDocEnvs>>

\* ProjectProcessor.initialize: this.definitionHandler = new DefinitionHandler
NewHandler(config) ==
  LET h == HandlerFor(config)
  IN  /\ defaultMacros' = h.defaultMacros
      /\ userProvidedMacros' = h.userProvidedMacros
      /\ definedInDocMacros' = h.definedInDocMacros
      /\ inferredUsedMacros' = h.inferredUsedMacros
      /\ ctanEnvs' = h.ctanEnvs
      /\ userProvidedEnvs' = h.userProvidedEnvs
      /\ definedInDocEnvs' = h.definedInDocEnvs

\* an insertion that replaces the category instead of assigning into it
AddDocumentDefinedMacros_Replace(docMacros) ==
  /\ definedInDocMacros' = docMacros
  /\ lastCall' = [op |-> "addDocumentDefinedMacros", arg |-> docMacros]

\* a stage 2 that reports the declarations without storing them
AddDocumentDefinedMacros_NotStored(docMacros) ==
  /\ definedInDocMacros' = definedInDocMacros
  /\ lastCall' = [op |-> "addDocumentDefinedMacros", arg |-> docMacros]

\* addDocumentDefinedMacros
AddDocumentDefinedMacros(docMacros) ==
  /\ definedInDocMacros' = Spread(definedInDocMacros, docMacros)
  /\ lastCall' = [op |-> "addDocumentDefinedMacros", arg |-> docMacros]

\* an insertion of environments that replaces the category
AddDocumentDefinedEnvironments_Replace(docEnvs) ==
  /\ definedInDocEnvs' = docEnvs
  /\ lastCall' = [op |-> "addDocumentDefinedEnvironments", arg |-> docEnvs]

\* addDocumentDefinedEnvironments
AddDocumentDefinedEnvironments(docEnvs) ==
  /\ definedInDocEnvs' = Spread(definedInDocEnvs, docEnvs)
  /\ lastCall' = [op |-> "addDocumentDefinedEnvironments", arg |-> docEnvs]

\* addInferredUsedMacros
AddInferredUsedMacros(inferredMacros) ==
  /\ inferredUsedMacros' =
       InferredAfterAdd(inferredMacros, defaultMacros, userProvidedMacros,
                        definedInDocMacros, inferredUsedMacros)
  /\ lastCall' = [op |-> "addInferredUsedMacros", arg |-> inferredMacros]

\* extractInferredUsedMacros, final loop: a table giving each observed
\* undeclared name the signature of as many mandatory parameters as its count
InferredRecords ==
  UNION {[d -> {Mandatory(k) : k \in 0..MaxArity}] : d \in SUBSET ModelNames}

\* resolved configurations (ResolvedParserConfig without the paths)
Configs ==
  [loadDefaultMacros : BOOLEAN, customMacroRecord : MacroRecords,
   customEnvironmentRecord : EnvRecords]

\* the InternalFileParseResult before parseFileContent has returned
NoParseResult == [ast |-> NULL, includedFiles |-> <<>>, error |-> UNDEF]

NoCall == [op |-> "none", arg |-> EmptyRecord]

\* no entry path has been looked at
NoEntry ==
  [kind |-> "none", path |-> NoPath, isTex |-> FALSE, common |-> NoPath,
   texFiles |-> <<>>, indicator |-> {}]

\* parse called with an entry path only: no option is given
NoOptions ==
  [loadDefaultMacros |-> None, customMacroRecord |-> None,
   macrosFromFile |-> None, customEnvironmentRecord |-> None,
   envsFromFile |-> None]

\* no call of parse came before this one
NoPrevious == [parsedFilePaths |-> {}, declared |-> {}, errors |-> FALSE]

\* ------------------------------------------------------------------------
\* The Definition Store driven by arbitrary insertion sequences
\* ------------------------------------------------------------------------

IdleRun ==
  /\ fileSystem = [p \in Paths |-> "missing"]
  /\ initialParserOptions = NoOptions
  /\ filesToParseQueue = <<>>
  /\ parsedFilePaths = {}
  /\ projectAstMap = EmptyRecord
  /\ projectFileErrors = EmptyRecord
  /\ projectGlobalErrors = <<>>
  /\ currentRootFilePath = NoPath
  /\ processingOrder = <<>>
  /\ currentFilePath = NoPath
  /\ ast = NULL
  /\ macrosForFirstPass = EmptyRecord
  /\ macrosForSecondPass = EmptyRecord
  /\ finalMacrosForAttachment = EmptyRecord
  /\ currentlyKnownMacroNames = {}
  /\ parseResult = NoParseResult
  /\ result = None
  /\ enqueueLog = <<>>
  /\ annotated = <<>>
  /\ referenced = {}
  /\ docNamesEarlier = {}
  /\ docNamesCurrent = {}
  /\ stagesRun = <<>>
  /\ threw = {}
  /\ failedFiles = {}
  /\ pendingAtFailure = {}
  /\ entryObserved = NoEntry
  /\ usageObserved = EmptyRecord
  /\ previousRun = NoPrevious

StoreInit ==
  /\ pc = "store"
  /\ \E config \in Configs :
       LET h == HandlerFor(config)
       IN  /\ defaultMacros = h.defaultMacros
           /\ userProvidedMacros = h.userProvidedMacros
           /\ definedInDocMacros = h.definedInDocMacros
           /\ inferredUsedMacros = h.inferredUsedMacros
           /\ ctanEnvs = h.ctanEnvs
           /\ userProvidedEnvs = h.userProvidedEnvs
           /\ definedInDocEnvs = h.definedInDocEnvs
  /\ lastCall = NoCall
  /\ IdleRun
  /\ fnArg = None
  /\ fnResult = None

StoreFrame ==
  UNCHANGED <<pc, fileSystem, initialParserOptions,
              processorVars, parserVars, result, historyVars,
              entryObserved, usageObserved, previousRun, pureVars>>

CallAddDocumentDefinedMacros ==
  \E docMacros \in MacroRecords :
    /\ AddDocumentDefinedMacros(docMacros)
    /\ UNCHANGED <<defaultMacros, userProvidedMacros, inferredUsedMacros,
                   ctanEnvs, userProvidedEnvs, definedInDocEnvs>>
    /\ StoreFrame

CallAddDocumentDefinedEnvironments ==
  \E docEnvs \in EnvRecords :
    /\ AddDocumentDefinedEnvironments(docEnvs)
    /\ UNCHANGED <<defaultMacros, userProvidedMacros, definedInDocMacros,
                   inferredUsedMacros, ctanEnvs, userProvidedEnvs>>
    /\ StoreFrame

CallAddInferredUsedMacros ==
  \E inferredMacros \in InferredRecords :
    /\ AddInferredUsedMacros(inferredMacros)
    /\ UNCHANGED <<defaultMacros, userProvidedMacros, definedInDocMacros,
                   ctanEnvs, userProvidedEnvs, definedInDocEnvs>>
    /\ StoreFrame

StoreNext ==
  \/ CallAddDocumentDefinedMacros
  \/ CallAddDocumentDefinedEnvironments
  \/ CallAddInferredUsedMacros

StoreSpec == StoreInit /\ [][StoreNext]_vars

\* ------------------------------------------------------------------------
\* ProjectProcessor.parse: configuration and root determination
\* ------------------------------------------------------------------------

\* processParserOptions: inline table || table loaded from file || default {}
ProcessParserOptions(options) ==
  [loadDefaultMacros |->
     IF options.loadDefaultMacros # None THEN Value(options.loadDefaultMacros)
     ELSE TRUE,
   customMacroRecord |->
     IF options.customMacroRecord # None THEN Value(options.customMacroRecord)
     ELSE IF options.macrosFromFile # None THEN Value(options.macrosFromFile)
     ELSE EmptyRecord,
   customEnvironmentRecord |->
     IF options.customEnvironmentRecord # None
     THEN Value(options.customEnvironmentRecord)
     ELSE IF options.envsFromFile # None THEN Value(options.envsFromFile)
     ELSE EmptyRecord]

\* the option objects of the modelled runs; macrosFromFile / envsFromFile are
\* what loadRecordFromFile returns for options.macrosFile / environmentsFile
ParserOptions ==
  {[loadDefaultMacros |-> None, customMacroRecord |-> None,
    macrosFromFile |-> None, customEnvironmentRecord |-> None,
    envsFromFile |-> None],
   [loadDefaultMacros |-> Some(FALSE),
    customMacroRecord |-> Some([n \in {"frac"} |-> <<"m">>]),
    macrosFromFile |-> Some([n \in {"foo"} |-> <<"o", "m">>]),
    customEnvironmentRecord |-> None,
    envsFromFile |-> Some([n \in {"thm"} |-> <<>>])]}

\* sequences without repetition over a set, of length at most n
RECURSIVE DistinctSeqs(_, _)
DistinctSeqs(S, n) ==
  IF n = 0 THEN {<<>>}
  ELSE {<<>>} \cup
       UNION {{<<x>> \o t : t \in DistinctSeqs(S \ {x}, n - 1)} : x \in S}

\* what the file-system operations of determineRootFile observe for an
\* entry path:
\*   kind      "missing" (fileExistsAsync false), "statThrows" (stat fails
\*             after access succeeded), "file", "dir", "other"
\*   path      the canonical path of a file entry
\*   isTex     isTexFile(entry)
\*   common    the first conventional root file name that exists, or NoPath
\*   texFiles  findTexFiles(entry), in traversal order
\*   indicator the files whose content satisfies isRootFileContent
Entries ==
  LET present == {p \in Paths : fileSystem[p] # "missing"}
      blank == [kind |-> "missing", path |-> NoPath, isTex |-> FALSE,
                common |-> NoPath, texFiles |-> <<>>, indicator |-> {}]
  IN  {[blank EXCEPT !.kind = k] : k \in {"missing", "statThrows", "other"}}
      \cup {[blank EXCEPT !.kind = "file", !.path = p, !.isTex = t] :
               p \in present, t \in BOOLEAN}
      \cup {[blank EXCEPT !.kind = "dir", !.common = c, !.texFiles = f,
                          !.indicator = i] :
               c \in present \cup {NoPath},
               f \in DistinctSeqs(present, 2),
               i \in SUBSET present}

\* a strategy 2 that takes every listed file for a candidate
RootCandidates_AnyFile(texFiles, indicator) == texFiles

\* determineRootFile, strategy 2: the files read successfully whose content
\* is a root file's, in the order findTexFiles returned them
RECURSIVE RootCandidates(_, _)
RootCandidates(texFiles, indicator) ==
  IF texFiles = <<>> THEN <<>>
  ELSE LET f == Head(texFiles)
           rest == RootCandidates(Tail(texFiles), indicator)
       IN  IF fileSystem[f] = "ok" /\ f \in indicator THEN <<f>> \o rest
           ELSE rest

GlobalError(kind, path) == [kind |-> kind, path |-> path]

\* a root determination that takes the last candidate instead of the first
DetermineRootFile_LastCandidate(entry) ==
  LET candidates == RootCandidates(entry.texFiles, entry.indicator)
  IN  IF entry.kind = "dir" /\ entry.common = NoPath /\ Len(candidates) >= 1
      THEN [root |-> candidates[Len(candidates)], errors |-> <<>>,
            thrown |-> FALSE]
      ELSE [root |-> NoPath, errors |-> <<GlobalError("noRoot", NoPath)>>,
            thrown |-> entry.kind = "statThrows"]

\* determineRootFile: the root (or NoPath), the global errors it pushes, and
\* whether it throws
DetermineRootFile(entry) ==
  LET none(kind) == [root |-> NoPath, errors |-> <<GlobalError(kind, NoPath)>>,
                     thrown |-> FALSE]
      found(p) == [root |-> p, errors |-> <<>>, thrown |-> FALSE]
      candidates == RootCandidates(entry.texFiles, entry.indicator)
  IN  IF entry.kind = "missing" THEN none("entryMissing")
      ELSE IF entry.kind = "statThrows"
      THEN [root |-> NoPath, errors |-> <<>>, thrown |-> TRUE]
      ELSE IF entry.kind = "file"
      THEN IF entry.isTex THEN found(entry.path) ELSE none("entryNotTex")
      ELSE IF entry.kind = "dir"
      THEN IF entry.common # NoPath THEN found(entry.common)
           ELSE IF Len(candidates) >= 1 THEN found(candidates[1])
           ELSE none("noRootInDirectory")
      ELSE none("notFileOrDirectory")

\* a result that leaves out the nodes without a tree
BuildProjectAstResult_TreesOnly(root, astMap, fileErrors, globalErrors) ==
  [rootFilePath |-> root,
   files |-> {[filePath |-> p, ast |-> astMap[p],
               error |-> IF p \in DOMAIN fileErrors THEN fileErrors[p]
                         ELSE UNDEF] :
                p \in {q \in DOMAIN astMap : astMap[q] # NULL}},
   macros |-> GetEffectiveMacroInfoRecord,
   environments |-> GetEffectiveEnvInfoRecord,
   errors |-> IF Len(globalErrors) > 0 THEN Some(globalErrors) ELSE None]

\* a result built without the global error list
BuildProjectAstResult_NoErrors(root, astMap, fileErrors, globalErrors) ==
  [rootFilePath |-> root,
   files |-> {[filePath |-> p, ast |-> astMap[p],
               error |-> IF p \in DOMAIN fileErrors THEN fileErrors[p]
                         ELSE UNDEF] : p \in DOMAIN astMap},
   macros |-> GetEffectiveMacroInfoRecord,
   environments |-> GetEffectiveEnvInfoRecord,
   errors |-> None]

\* buildProjectAstResult
BuildProjectAstResult(root, astMap, fileErrors, globalErrors) ==
  [rootFilePath |-> root,
   files |-> {[filePath |-> p, ast |-> astMap[p],
               error |-> IF p \in DOMAIN fileErrors THEN fileErrors[p]
                         ELSE UNDEF] : p \in DOMAIN astMap},
   macros |-> GetEffectiveMacroInfoRecord,
   environments |-> GetEffectiveEnvInfoRecord,
   errors |-> IF Len(globalErrors) > 0 THEN Some(globalErrors) ELSE None]

Init ==
  /\ pc = "start"
  /\ fileSystem \in [Paths -> {"missing", "unreadable", "ok"}]
  /\ initialParserOptions = NoOptions
  /\ defaultMacros = EmptyRecord
  /\ userProvidedMacros = EmptyRecord
  /\ definedInDocMacros = EmptyRecord
  /\ inferredUsedMacros = EmptyRecord
  /\ ctanEnvs = EmptyRecord
  /\ userProvidedEnvs = EmptyRecord
  /\ definedInDocEnvs = EmptyRecord
  /\ lastCall = NoCall
  /\ filesToParseQueue = <<>>
  /\ parsedFilePaths = {}
  /\ projectAstMap = EmptyRecord
  /\ projectFileErrors = EmptyRecord
  /\ projectGlobalErrors = <<>>
  /\ currentRootFilePath = NoPath
  /\ processingOrder = <<>>
  /\ currentFilePath = NoPath
  /\ ast = NULL
  /\ macrosForFirstPass = EmptyRecord
  /\ macrosForSecondPass = EmptyRecord
  /\ finalMacrosForAttachment = EmptyRecord
  /\ currentlyKnownMacroNames = {}
  /\ parseResult = NoParseResult
  /\ result = None
  /\ enqueueLog = <<>>
  /\ annotated = <<>>
  /\ referenced = {}
  /\ docNamesEarlier = {}
  /\ docNamesCurrent = {}
  /\ stagesRun = <<>>
  /\ threw = {}
  /\ failedFiles = {}
  /\ pendingAtFailure = {}
  /\ entryObserved = NoEntry
  /\ usageObserved = EmptyRecord
  /\ previousRun = NoPrevious
  /\ fnArg = None
  /\ fnResult = None

\* parse, lines 75-84: processParserOptions and initialize
ParseStart ==
  /\ pc = "start"
  /\ \E options \in ParserOptions :
       /\ initialParserOptions' = options
       /\ NewHandler(ProcessParserOptions(options))
  /\ parsedFilePaths' = {}
  /\ projectAstMap' = EmptyRecord
  /\ projectFileErrors' = EmptyRecord
  /\ projectGlobalErrors' = <<>>
  /\ currentRootFilePath' = NoPath
  /\ pc' = "root"
  /\ UNCHANGED <<lastCall, fileSystem, filesToParseQueue, processingOrder,
                 currentFilePath, parserVars, result, historyVars>>
  /\ UNCHANGED <<entryObserved, usageObserved, previousRun, pureVars>>

\* parse, lines 89-100, root found: the queue is seeded with the root
RootFound ==
  /\ pc = "root"
  /\ \E entry \in Entries :
       LET d == DetermineRootFile(entry)
       IN  /\ ~d.thrown
           /\ d.root # NoPath
           /\ currentRootFilePath' = d.root
           /\ projectGlobalErrors' = projectGlobalErrors \o d.errors
           /\ filesToParseQueue' = <<d.root>>
           /\ enqueueLog' = <<[path |-> d.root, by |-> NoPath]>>
           /\ entryObserved' = entry
  /\ processingOrder' = <<>>
  /\ pc' = "loop"
  /\ UNCHANGED <<storeVars, lastCall, fileSystem, initialParserOptions,
                 parsedFilePaths,
                 projectAstMap, projectFileErrors, currentFilePath, parserVars,
                 result, annotated, referenced, docNamesEarlier, docNamesCurrent, stagesRun,
                 threw, failedFiles, pendingAtFailure>>
  /\ previousRun' = NoPrevious
  /\ UNCHANGED <<usageObserved, pureVars>>

\* parse, lines 89-96, no root: the error is pushed and the result returned
RootNotFound ==
  /\ pc = "root"
  /\ \E entry \in Entries :
       LET d == DetermineRootFile(entry)
           errs == (projectGlobalErrors \o d.errors)
                     \o <<GlobalError("noRoot", NoPath)>>
       IN  /\ ~d.thrown
           /\ d.root = NoPath
           /\ projectGlobalErrors' = errs
           /\ result' = Some(BuildProjectAstResult(NoPath, projectAstMap,
                                                   projectFileErrors, errs))
           /\ entryObserved' = entry
  /\ pc' = "done"
  /\ UNCHANGED <<storeVars, lastCall, fileSystem, initialParserOptions,
                 filesToParseQueue,
                 parsedFilePaths, projectAstMap, projectFileErrors,
                 currentRootFilePath, processingOrder, currentFilePath,
                 parserVars, historyVars>>
  /\ previousRun' = NoPrevious
  /\ UNCHANGED <<usageObserved, pureVars>>

\* parse, line 89: getFileStatsAsync rejects inside determineRootFile and
\* nothing between it and the caller catches
RootThrows ==
  /\ pc = "root"
  /\ \E entry \in Entries :
       /\ DetermineRootFile(entry).thrown
       /\ entryObserved' = entry
  /\ pc' = "thrown"
  /\ UNCHANGED <<storeVars, lastCall, fileSystem, initialParserOptions,
                 processorVars, parserVars,
                 result, historyVars>>
  /\ previousRun' = NoPrevious
  /\ UNCHANGED <<usageObserved, pureVars>>

\* ------------------------------------------------------------------------
\* ProjectProcessor.parse: the traversal loop
\* ------------------------------------------------------------------------

\* a queue that hands out its newest entry (pop instead of shift)
Shift_Pop(queue) ==
  [path |-> queue[Len(queue)], rest |-> SubSeq(queue, 1, Len(queue) - 1)]

\* filesToParseQueue.shift(): the dequeued path and the remaining queue
Shift(queue) == [path |-> Head(queue), rest |-> Tail(queue)]

\* a dequeue without the visited check
AlreadyParsed_Never(path, parsed) == FALSE

\* line 107: the dequeued path was already parsed and is skipped
AlreadyParsed(path, parsed) == path \in parsed

\* an include loop without the visited check
NotYetParsed_Always(path, parsed) == TRUE

\* line 146: an include reference is looked at only if its target is not in
\* parsedFilePaths
NotYetParsed(path, parsed) == path \notin parsed

\* line 147: fileExistsAsync
FileExists(path) == fileSystem[path] # "missing"

\* line 118: readFileAsync succeeds
Readable(path) == fileSystem[path] = "ok"

\* parse, lines 103 and 161-162: the queue is empty, the result is built
LoopExit ==
  /\ pc = "loop"
  /\ filesToParseQueue = <<>>
  /\ result' = Some(BuildProjectAstResult(currentRootFilePath, projectAstMap,
                                          projectFileErrors,
                                          projectGlobalErrors))
  /\ pc' = "done"
  /\ UNCHANGED <<storeVars, lastCall, fileSystem, initialParserOptions,
                 processorVars, parserVars,
                 historyVars>>
  /\ UNCHANGED <<entryObserved, usageObserved, previousRun, pureVars>>

\* parse, lines 104-110: a path that is already parsed is dropped
DequeueSkip ==
  /\ pc = "loop"
  /\ filesToParseQueue # <<>>
  /\ LET d == Shift(filesToParseQueue)
     IN  /\ AlreadyParsed(d.path, parsedFilePaths)
         /\ filesToParseQueue' = d.rest
  /\ UNCHANGED <<pc, storeVars, lastCall, fileSystem, initialParserOptions,
                 parsedFilePaths,
                 projectAstMap, projectFileErrors, projectGlobalErrors,
                 currentRootFilePath, processingOrder, currentFilePath,
                 parserVars, result, historyVars>>
  /\ entryObserved' = NoEntry
  /\ UNCHANGED <<usageObserved, previousRun, pureVars>>

\* parse, lines 104-125: the file is marked parsed and its read fails
DequeueReadFails ==
  /\ pc = "loop"
  /\ filesToParseQueue # <<>>
  /\ LET d == Shift(filesToParseQueue)
     IN  /\ ~AlreadyParsed(d.path, parsedFilePaths)
         /\ ~Readable(d.path)
         /\ filesToParseQueue' = d.rest
         /\ processingOrder' = Append(processingOrder, d.path)
         /\ parsedFilePaths' = parsedFilePaths \cup {d.path}
         /\ currentFilePath' = d.path
         /\ projectFileErrors' =
              Spread(projectFileErrors, d.path :> "readFailed")
         /\ projectAstMap' = Spread(projectAstMap, d.path :> NULL)
         /\ failedFiles' = failedFiles \cup {d.path}
         /\ pendingAtFailure' = pendingAtFailure \cup Range(d.rest)
  /\ UNCHANGED <<pc, storeVars, lastCall, fileSystem, initialParserOptions,
                 projectGlobalErrors,
                 currentRootFilePath, parserVars, result, enqueueLog,
                 annotated, referenced, docNamesEarlier, docNamesCurrent, stagesRun, threw>>
  /\ entryObserved' = NoEntry
  /\ UNCHANGED <<usageObserved, previousRun, pureVars>>

\* parse, lines 104-130: the file is marked parsed, read, and handed to
\* parseFileContent
DequeueRead ==
  /\ pc = "loop"
  /\ filesToParseQueue # <<>>
  /\ LET d == Shift(filesToParseQueue)
     IN  /\ ~AlreadyParsed(d.path, parsedFilePaths)
         /\ Readable(d.path)
         /\ filesToParseQueue' = d.rest
         /\ processingOrder' = Append(processingOrder, d.path)
         /\ parsedFilePaths' = parsedFilePaths \cup {d.path}
         /\ currentFilePath' = d.path
         /\ annotated' = Append(annotated, d.path)
  /\ pc' = "stage1"
  /\ UNCHANGED <<storeVars, lastCall, fileSystem, initialParserOptions,
                 projectAstMap,
                 projectFileErrors, projectGlobalErrors, currentRootFilePath,
                 parserVars, result, enqueueLog, referenced, docNamesEarlier, docNamesCurrent,
                 stagesRun, threw, failedFiles, pendingAtFailure>>
  /\ entryObserved' = NoEntry
  /\ UNCHANGED <<usageObserved, previousRun, pureVars>>

\* ------------------------------------------------------------------------
\* FileContentParser.parseFileContent: the stages of one file
\* ------------------------------------------------------------------------

\* the explicit command declarations found in the files of the modelled
\* projects (the result of extractDefinedMacrosFromAst for one file)
FileMacroRecords == {EmptyRecord, [n \in {"foo"} |-> <<"o", "m">>]}

\* the explicit environment declarations found in the files of the modelled
\* projects (the result of extractDefinedEnvironmentsFromAst for one file)
FileEnvRecords == {EmptyRecord, [n \in {"thm"} |-> <<"m">>]}

\* a catch block that returns no error message
CaughtResult_NoError == [ast |-> NULL, includedFiles |-> <<>>, error |-> UNDEF]

\* a catch block that returns an include reference with its error
CaughtResult_WithInclude ==
  [ast |-> NULL, includedFiles |-> <<1>>, error |-> "parseFailed"]

\* lines 132-145: the outer catch returns a result without a tree
CaughtResult == [ast |-> NULL, includedFiles |-> <<>>, error |-> "parseFailed"]

\* a pipeline without the inner try/catch
CaughtInside_None(stage) == FALSE

\* lines 99-106: the only stage wrapped in a try/catch of its own is the
\* block-structure shaping
CaughtInside(stage) == stage = 6

\* the stage threw into the outer catch
OuterCatch(stage) ==
  /\ parseResult' = CaughtResult
  /\ threw' = threw \cup {stage}
  /\ pc' = "record"

\* stage 1, lines 59-62: the raw parse
RawParse ==
  /\ pc = "stage1"
  /\ stagesRun' = Append(stagesRun, 1)
  /\ \E throws \in BOOLEAN :
       IF throws
       THEN OuterCatch(1) /\ UNCHANGED ast
       ELSE /\ ast' = TREE
            /\ pc' = "stage2"
            /\ UNCHANGED <<parseResult, threw>>
  /\ UNCHANGED <<storeVars, lastCall, fileSystem, initialParserOptions,
                 processorVars,
                 macrosForFirstPass, macrosForSecondPass,
                 finalMacrosForAttachment, currentlyKnownMacroNames, result,
                 enqueueLog, annotated, referenced, docNamesEarlier, docNamesCurrent,
                 failedFiles, pendingAtFailure>>
  /\ UNCHANGED <<entryObserved, usageObserved, previousRun, pureVars>>

\* stage 2, lines 69-73: explicit command declarations are registered
ExtractMacros ==
  /\ pc = "stage2"
  /\ stagesRun' = Append(stagesRun, 2)
  /\ \E definedInThisFileMacros \in FileMacroRecords :
       /\ AddDocumentDefinedMacros(definedInThisFileMacros)
       /\ docNamesCurrent' = DOMAIN definedInThisFileMacros
  /\ pc' = "stage3"
  /\ UNCHANGED <<defaultMacros, userProvidedMacros, inferredUsedMacros,
                 ctanEnvs, userProvidedEnvs, definedInDocEnvs, fileSystem, initialParserOptions,
                 processorVars, parserVars, result, enqueueLog, annotated,
                 referenced, docNamesEarlier, threw, failedFiles,
                 pendingAtFailure>>
  /\ UNCHANGED <<entryObserved, usageObserved, previousRun, pureVars>>

\* stage 3, lines 75-80: first argument-shaping pass; a throw of
\* attachMacroArgs reaches the outer catch
Pass1 ==
  /\ pc = "stage3"
  /\ stagesRun' = Append(stagesRun, 3)
  /\ macrosForFirstPass' = GetEffectiveMacroInfoRecord
  /\ \E throws \in BOOLEAN :
       IF throws /\ ~CaughtInside(3) THEN OuterCatch(3)
       ELSE /\ pc' = "stage4"
            /\ threw' = IF throws THEN threw \cup {3} ELSE threw
            /\ UNCHANGED parseResult
  /\ UNCHANGED <<storeVars, lastCall, fileSystem, initialParserOptions,
                 processorVars, ast,
                 macrosForSecondPass, finalMacrosForAttachment,
                 currentlyKnownMacroNames, result, enqueueLog, annotated,
                 referenced, docNamesEarlier, docNamesCurrent, failedFiles, pendingAtFailure>>
  /\ UNCHANGED <<entryObserved, usageObserved, previousRun, pureVars>>

\* stage 4, lines 82-86: explicit environment declarations are registered
ExtractEnvironments ==
  /\ pc = "stage4"
  /\ stagesRun' = Append(stagesRun, 4)
  /\ \E definedInThisFileEnvs \in FileEnvRecords :
       AddDocumentDefinedEnvironments(definedInThisFileEnvs)
  /\ pc' = "stage5"
  /\ UNCHANGED <<defaultMacros, userProvidedMacros, definedInDocMacros,
                 inferredUsedMacros, ctanEnvs, userProvidedEnvs, fileSystem, initialParserOptions,
                 processorVars, parserVars, result, enqueueLog, annotated,
                 referenced, docNamesEarlier, docNamesCurrent, threw, failedFiles,
                 pendingAtFailure>>
  /\ UNCHANGED <<entryObserved, usageObserved, previousRun, pureVars>>

\* stage 5, lines 88-94: second argument-shaping pass
Pass2 ==
  /\ pc = "stage5"
  /\ stagesRun' = Append(stagesRun, 5)
  /\ macrosForSecondPass' = GetEffectiveMacroInfoRecord
  /\ \E throws \in BOOLEAN :
       IF throws /\ ~CaughtInside(5) THEN OuterCatch(5)
       ELSE /\ pc' = "stage6"
            /\ threw' = IF throws THEN threw \cup {5} ELSE threw
            /\ UNCHANGED parseResult
  /\ UNCHANGED <<storeVars, lastCall, fileSystem, initialParserOptions,
                 processorVars, ast,
                 macrosForFirstPass, finalMacrosForAttachment,
                 currentlyKnownMacroNames, result,
                 enqueueLog, annotated, referenced, docNamesEarlier, docNamesCurrent,
                 failedFiles, pendingAtFailure>>
  /\ UNCHANGED <<entryObserved, usageObserved, previousRun, pureVars>>

\* stage 6, lines 96-106: block-structure shaping inside its own try/catch
ProcessEnvironments ==
  /\ pc = "stage6"
  /\ stagesRun' = Append(stagesRun, 6)
  /\ \E throws \in BOOLEAN :
       IF throws /\ ~CaughtInside(6) THEN OuterCatch(6)
       ELSE /\ pc' = "stage7"
            /\ threw' = IF throws THEN threw \cup {6} ELSE threw
            /\ UNCHANGED parseResult
  /\ UNCHANGED <<storeVars, lastCall, fileSystem, initialParserOptions,
                 processorVars, ast,
                 macrosForFirstPass, macrosForSecondPass,
                 finalMacrosForAttachment, currentlyKnownMacroNames, result,
                 enqueueLog, annotated, referenced, docNamesEarlier, docNamesCurrent,
                 failedFiles, pendingAtFailure>>
  /\ UNCHANGED <<entryObserved, usageObserved, previousRun, pureVars>>

\* what a file's text shows about command usage: for each used command name
\* the largest number of brace groups that follow one of its occurrences
UsageTables(names) == UNION {[d -> 0..MaxArity] : d \in SUBSET names}

\* the usage tables of the files of the modelled projects
FileUsageTables == UsageTables({"foo"})

\* an extraction that does not look at the known set
ExtractInferredUsedMacros_AllUsed(usage, known) ==
  [n \in DOMAIN usage |-> Mandatory(usage[n])]

\* extractInferredUsedMacros: names in the known set are passed over, every
\* other used name gets as many mandatory parameters as its largest count
ExtractInferredUsedMacros(usage, known) ==
  [n \in (DOMAIN usage) \ known |-> Mandatory(usage[n])]

\* stage 7, lines 108-112: arity inference against the current merged view
InferMacros ==
  /\ pc = "stage7"
  /\ stagesRun' = Append(stagesRun, 7)
  /\ currentlyKnownMacroNames' = DOMAIN GetEffectiveMacroInfoRecord
  /\ \E usage \in FileUsageTables :
       /\ AddInferredUsedMacros(
            ExtractInferredUsedMacros(usage, DOMAIN GetEffectiveMacroInfoRecord))
       /\ usageObserved' = usage
  /\ pc' = "stage8"
  /\ UNCHANGED <<defaultMacros, userProvidedMacros, definedInDocMacros,
                 ctanEnvs, userProvidedEnvs, definedInDocEnvs, fileSystem, initialParserOptions,
                 processorVars, ast, macrosForFirstPass, macrosForSecondPass,
                 finalMacrosForAttachment, parseResult, result,
                 enqueueLog, annotated, referenced, docNamesEarlier, docNamesCurrent, threw,
                 failedFiles, pendingAtFailure>>
  /\ UNCHANGED <<entryObserved, previousRun, pureVars>>

\* stage 8, lines 114-118: final argument-shaping pass
Pass3 ==
  /\ pc = "stage8"
  /\ stagesRun' = Append(stagesRun, 8)
  /\ finalMacrosForAttachment' = GetEffectiveMacroInfoRecord
  /\ \E throws \in BOOLEAN :
       IF throws /\ ~CaughtInside(8) THEN OuterCatch(8)
       ELSE /\ pc' = "stage9"
            /\ threw' = IF throws THEN threw \cup {8} ELSE threw
            /\ UNCHANGED parseResult
  /\ UNCHANGED <<storeVars, lastCall, fileSystem, initialParserOptions,
                 processorVars, ast,
                 macrosForFirstPass, macrosForSecondPass,
                 currentlyKnownMacroNames, result,
                 enqueueLog, annotated, referenced, docNamesEarlier, docNamesCurrent,
                 failedFiles, pendingAtFailure>>
  /\ usageObserved' = EmptyRecord
  /\ UNCHANGED <<entryObserved, previousRun, pureVars>>

\* sequences over a set, of length at most n
RECURSIVE SeqsUpTo(_, _)
SeqsUpTo(S, n) ==
  IF n = 0 THEN {<<>>}
  ELSE {<<>>} \cup {<<x>> \o t : x \in S, t \in SeqsUpTo(S, n - 1)}

\* the canonical target paths of the include references of one file
IncludeLists == SeqsUpTo(Paths, MaxIncl)

\* stage 9, lines 120-130: include references are extracted and the result
\* with the tree is returned
ExtractIncludes ==
  /\ pc = "stage9"
  /\ stagesRun' = Append(stagesRun, 9)
  /\ \E includedFiles \in IncludeLists :
       parseResult' = [ast |-> ast, includedFiles |-> includedFiles,
                       error |-> UNDEF]
  /\ pc' = "record"
  /\ UNCHANGED <<storeVars, lastCall, fileSystem, initialParserOptions,
                 processorVars, ast,
                 macrosForFirstPass, macrosForSecondPass,
                 finalMacrosForAttachment, currentlyKnownMacroNames, result,
                 enqueueLog, annotated, referenced, docNamesEarlier, docNamesCurrent, threw,
                 failedFiles, pendingAtFailure>>
  /\ UNCHANGED <<entryObserved, usageObserved, previousRun, pureVars>>

\* an include loop that stops after its first reference
EnqueueIncluded_FirstOnly(includedFiles, by, st) ==
  IF includedFiles = <<>> \/ ~NotYetParsed(Head(includedFiles), st.parsed)
  THEN st
  ELSE IF FileExists(Head(includedFiles))
  THEN [st EXCEPT !.queue = Append(@, Head(includedFiles)),
                  !.log = Append(@, [path |-> Head(includedFiles),
                                     by |-> by])]
  ELSE [st EXCEPT !.globalErrors =
                    Append(@, GlobalError("includeMissing",
                                          Head(includedFiles))),
                  !.astMap = Spread(@, Head(includedFiles) :> NULL),
                  !.fileErrors = Spread(@, Head(includedFiles) :> "notFound"),
                  !.parsed = @ \cup {Head(includedFiles)}]

\* parse, lines 144-159: the loop over the include references of the file
\* `by`; st carries the queue, the parsed set, the node table, the errors
\* and the log of pushes
RECURSIVE EnqueueIncluded(_, _, _)
EnqueueIncluded(includedFiles, by, st) ==
  IF includedFiles = <<>> THEN st
  ELSE LET inc == Head(includedFiles)
           rest == Tail(includedFiles)
       IN  IF ~NotYetParsed(inc, st.parsed) THEN EnqueueIncluded(rest, by, st)
           ELSE IF FileExists(inc)
           THEN EnqueueIncluded(rest, by,
                  [st EXCEPT !.queue = Append(@, inc),
                             !.log = Append(@, [path |-> inc, by |-> by])])
           ELSE EnqueueIncluded(rest, by,
                  [st EXCEPT !.globalErrors =
                               Append(@, GlobalError("includeMissing", inc)),
                             !.astMap = Spread(@, inc :> NULL),
                             !.fileErrors = Spread(@, inc :> "notFound"),
                             !.parsed = @ \cup {inc}])

\* parse, lines 132-159: the result of parseFileContent is recorded and the
\* included files are enqueued
RecordResult ==
  /\ pc = "record"
  /\ LET st0 == [queue |-> filesToParseQueue,
                 parsed |-> parsedFilePaths,
                 astMap |-> Spread(projectAstMap,
                                   currentFilePath :> parseResult.ast),
                 fileErrors |->
                   IF parseResult.error # UNDEF
                   THEN Spread(projectFileErrors,
                               currentFilePath :> parseResult.error)
                   ELSE projectFileErrors,
                 globalErrors |-> projectGlobalErrors,
                 log |-> enqueueLog]
         st == EnqueueIncluded(parseResult.includedFiles, currentFilePath, st0)
     IN  /\ filesToParseQueue' = st.queue
         /\ parsedFilePaths' = st.parsed
         /\ projectAstMap' = st.astMap
         /\ projectFileErrors' = st.fileErrors
         /\ projectGlobalErrors' = st.globalErrors
         /\ enqueueLog' = st.log
  /\ referenced' = referenced \cup
       {<<currentFilePath, t>> : t \in Range(parseResult.includedFiles)}
  /\ failedFiles' = IF 1 \in threw THEN failedFiles \cup {currentFilePath}
                    ELSE failedFiles
  /\ pendingAtFailure' =
       IF 1 \in threw THEN pendingAtFailure \cup Range(filesToParseQueue)
       ELSE pendingAtFailure
  /\ ast' = NULL
  /\ macrosForFirstPass' = EmptyRecord
  /\ macrosForSecondPass' = EmptyRecord
  /\ finalMacrosForAttachment' = EmptyRecord
  /\ currentlyKnownMacroNames' = {}
  /\ parseResult' = NoParseResult
  /\ stagesRun' = <<>>
  /\ threw' = {}
  /\ pc' = "loop"
  /\ docNamesEarlier' = docNamesEarlier \cup docNamesCurrent
  /\ docNamesCurrent' = {}
  /\ UNCHANGED <<storeVars, lastCall, fileSystem, initialParserOptions,
                 currentRootFilePath,
                 processingOrder, currentFilePath, result, annotated>>
  /\ UNCHANGED <<entryObserved, usageObserved, previousRun, pureVars>>

Next ==
  \/ ParseStart
  \/ RootFound
  \/ RootNotFound
  \/ RootThrows
  \/ LoopExit
  \/ DequeueSkip
  \/ DequeueReadFails
  \/ DequeueRead
  \/ RawParse
  \/ ExtractMacros
  \/ Pass1
  \/ ExtractEnvironments
  \/ Pass2
  \/ ProcessEnvironments
  \/ InferMacros
  \/ Pass3
  \/ ExtractIncludes
  \/ RecordResult

Spec == Init /\ [][Next]_vars

\* every await of the run completes: the single thread of control always
\* takes its next step
FairSpec == Spec /\ WF_vars(Next)

\* ------------------------------------------------------------------------
\* ProjectProcessor.parse called again on the same instance
\* ------------------------------------------------------------------------

\* what a finished call leaves on the instance
LeftBehind ==
  [parsedFilePaths |-> parsedFilePaths,
   declared |-> (DOMAIN definedInDocMacros \cup DOMAIN inferredUsedMacros)
                  \cup DOMAIN definedInDocEnvs,
   errors |-> projectGlobalErrors # <<>> \/ DOMAIN projectFileErrors # {}]

\* parse, lines 75-84, entered after an earlier call has returned or thrown:
\* processParserOptions on the new options, then initialize; the locals and
\* the return value are those of the new call
ParseAgain ==
  /\ pc \in {"done", "thrown"}
  /\ \E options \in ParserOptions :
       /\ initialParserOptions' = options
       /\ NewHandler(ProcessParserOptions(options))
  /\ parsedFilePaths' = {}
  /\ projectAstMap' = EmptyRecord
  /\ projectFileErrors' = EmptyRecord
  /\ projectGlobalErrors' = <<>>
  /\ currentRootFilePath' = NoPath
  /\ filesToParseQueue' = <<>>
  /\ processingOrder' = <<>>
  /\ currentFilePath' = NoPath
  /\ result' = None
  /\ lastCall' = NoCall
  /\ enqueueLog' = <<>>
  /\ annotated' = <<>>
  /\ referenced' = {}
  /\ docNamesEarlier' = {}
  /\ docNamesCurrent' = {}
  /\ stagesRun' = <<>>
  /\ threw' = {}
  /\ failedFiles' = {}
  /\ pendingAtFailure' = {}
  /\ entryObserved' = NoEntry
  /\ previousRun' = LeftBehind
  /\ pc' = "root"
  /\ UNCHANGED <<fileSystem, parserVars, usageObserved, pureVars>>

ReuseNext == Next \/ ParseAgain

ReuseSpec == Init /\ [][ReuseNext]_vars

\* ------------------------------------------------------------------------
\* Properties
\* ------------------------------------------------------------------------

\* the entry of a table for a name: <<info>>, or <<>> when the name is absent
Entry(rec, n) == IF n \in DOMAIN rec THEN <<rec[n]>> ELSE <<>>

AllMacroNames == ModelNames \cup DOMAIN DefaultMacroSignatures

\* the names held by a category other than the inferred one
NonInferredNames ==
  (DOMAIN defaultMacros) \cup (DOMAIN userProvidedMacros)
    \cup (DOMAIN definedInDocMacros)

\* C2: after any sequence of insertions the merged command view has exactly
\* the names of the four categories and gives each name the entry of the
\* highest-priority category that holds it:
\* document-defined > user-provided > default > inferred.
C2_MergePriority ==
  LET merged == GetEffectiveMacroInfoRecord
  IN  /\ DOMAIN merged = NonInferredNames \cup DOMAIN inferredUsedMacros
      /\ \A n \in DOMAIN merged :
           merged[n] =
             IF n \in DOMAIN definedInDocMacros THEN definedInDocMacros[n]
             ELSE IF n \in DOMAIN userProvidedMacros
             THEN userProvidedMacros[n]
             ELSE IF n \in DOMAIN defaultMacros THEN defaultMacros[n]
             ELSE inferredUsedMacros[n]

\* C2 witness: after an insertion, one name is held by the default, the
\* user-provided and the document-defined category with three different
\* signatures, and one name by the inferred and the document-defined
\* category with different signatures.
C2_Witness ==
  /\ lastCall.op # "none"
  /\ \E n \in AllMacroNames :
       /\ n \in DOMAIN defaultMacros
       /\ n \in DOMAIN userProvidedMacros
       /\ n \in DOMAIN definedInDocMacros
       /\ defaultMacros[n] # userProvidedMacros[n]
       /\ userProvidedMacros[n] # definedInDocMacros[n]
       /\ defaultMacros[n] # definedInDocMacros[n]
  /\ \E n \in AllMacroNames :
       /\ n \in DOMAIN inferredUsedMacros
       /\ n \in DOMAIN definedInDocMacros
       /\ inferredUsedMacros[n] # definedInDocMacros[n]

\* C3: a call of addInferredUsedMacros leaves every category unchanged for
\* every name that a non-inferred category held when the call was made.
C3_InferenceNonOverride ==
  [][(lastCall'.op = "addInferredUsedMacros" /\ lastCall' # lastCall) =>
       \A n \in NonInferredNames :
         /\ Entry(inferredUsedMacros', n) = Entry(inferredUsedMacros, n)
         /\ Entry(defaultMacros', n) = Entry(defaultMacros, n)
         /\ Entry(userProvidedMacros', n) = Entry(userProvidedMacros, n)
         /\ Entry(definedInDocMacros', n) = Entry(definedInDocMacros, n)]_vars

\* C3 witness: addInferredUsedMacros was just called with a name that the
\* document-defined category holds and with a name that the user-provided
\* category holds, and neither was inserted.
C3_Witness ==
  /\ lastCall.op = "addInferredUsedMacros"
  /\ \E n \in DOMAIN lastCall.arg :
       n \in DOMAIN definedInDocMacros /\ n \notin DOMAIN inferredUsedMacros
  /\ \E n \in DOMAIN lastCall.arg :
       /\ n \in DOMAIN userProvidedMacros
       /\ n \notin DOMAIN definedInDocMacros
       /\ n \notin DOMAIN inferredUsedMacros

NoDuplicates(seq) ==
  \A i, j \in 1..Len(seq) : seq[i] = seq[j] => i = j

\* the paths of a log of pushes
RECURSIVE PushedPaths(_)
PushedPaths(log) ==
  IF log = <<>> THEN <<>> ELSE <<Head(log).path>> \o PushedPaths(Tail(log))

\* the order of first occurrence in a sequence
RECURSIVE FirstOccurrences(_, _)
FirstOccurrences(seq, seen) ==
  IF seq = <<>> THEN <<>>
  ELSE IF Head(seq) \in seen THEN FirstOccurrences(Tail(seq), seen)
  ELSE <<Head(seq)>> \o FirstOccurrences(Tail(seq), seen \cup {Head(seq)})

\* the discovery order: the paths in the order in which each was first
\* placed in the queue
DiscoveryOrder == FirstOccurrences(PushedPaths(enqueueLog), {})

\* how often a path was placed in the queue
TimesPushed(path) ==
  Cardinality({i \in 1..Len(enqueueLog) : enqueueLog[i].path = path})

\* C1: every path is handed to the per-file pipeline at most once, and once
\* the traversal loop is entered it ends with an empty queue and the result
\* built, whatever the include graph (cycles, self-includes, diamonds).
C1_TraversalTerminates ==
  /\ [](NoDuplicates(annotated) /\ NoDuplicates(processingOrder))
  /\ ((pc = "loop") ~> (pc = "done" /\ filesToParseQueue = <<>>))

\* C1 witness: the run has ended after processing three files, among them
\* two that include each other and one that two different files include.
C1_Witness ==
  /\ pc = "done"
  /\ Len(annotated) = 3
  /\ \E a, b \in Paths :
       a # b /\ <<a, b>> \in referenced /\ <<b, a>> \in referenced
  /\ \E a, b, c \in Paths :
       /\ a # b /\ a # c /\ b # c
       /\ <<a, c>> \in referenced
       /\ <<b, c>> \in referenced

\* C4 as stated: no canonical path is placed in the queue more than once.
C4_EnqueuedAtMostOnce == \A p \in Paths : TimesPushed(p) <= 1

\* C4 amended: no canonical path is dequeued for processing more than once,
\* and a reference to a path that is already in the visited set places nothing
\* in the queue (a reference to a path that is queued but not yet dequeued
\* does place a further copy, which is dropped when it is dequeued).
C4_ProcessedAtMostOnce ==
  /\ [](NoDuplicates(processingOrder))
  /\ [][\A i \in (Len(enqueueLog) + 1)..Len(enqueueLog') :
          /\ enqueueLog'[i].path \notin parsedFilePaths
          /\ SubSeq(enqueueLog', 1, Len(enqueueLog)) = enqueueLog]_vars

\* C4 witness: the run has ended, some path was placed in the queue twice and
\* processed once, and some file referenced itself without being queued again.
C4_Witness ==
  /\ pc = "done"
  /\ \E p \in Paths :
       /\ TimesPushed(p) = 2
       /\ Cardinality({i \in 1..Len(processingOrder) :
                         processingOrder[i] = p}) = 1
  /\ \E p \in Paths : <<p, p>> \in referenced /\ TimesPushed(p) = 1

\* the record of the first push of a path
FirstPush(path) ==
  enqueueLog[CHOOSE i \in 1..Len(enqueueLog) :
               /\ enqueueLog[i].path = path
               /\ \A j \in 1..(i - 1) : enqueueLog[j].path # path]

\* the position of a path in the processing order
Position(path) ==
  CHOOSE i \in 1..Len(processingOrder) : processingOrder[i] = path

\* C5: files are processed in the order of their first discovery (the
\* processing order is a prefix of the discovery order), one file at a time,
\* and every processed file other than the root was first referenced by a
\* file processed before it.
C5_BreadthFirstOrder ==
  /\ Len(processingOrder) <= Len(DiscoveryOrder)
  /\ \A i \in 1..Len(processingOrder) :
       /\ processingOrder[i] = DiscoveryOrder[i]
       /\ LET by == FirstPush(processingOrder[i]).by
          IN  IF i = 1 THEN by = NoPath
              ELSE by \in Range(processingOrder) /\ Position(by) < i
  /\ pc \in {"stage1", "stage2", "stage3", "stage4", "stage5", "stage6",
              "stage7", "stage8", "stage9", "record"} =>
       /\ currentFilePath = processingOrder[Len(processingOrder)]
       /\ currentFilePath = annotated[Len(annotated)]

\* C5 witness: the run has ended after processing three files, the second
\* and the third both discovered while the root was processed.
C5_Witness ==
  /\ pc = "done"
  /\ Len(processingOrder) = 3
  /\ FirstPush(processingOrder[2]).by = processingOrder[1]
  /\ FirstPush(processingOrder[3]).by = processingOrder[1]

\* C6: when a file runs its first argument-shaping pass, the merged view the
\* pass uses holds every command name that earlier files registered as
\* document-defined, and so does the known-name set of its arity inference.
C6_EarlierDeclarationsVisible ==
  /\ 3 \in Range(stagesRun) => docNamesEarlier \subseteq DOMAIN macrosForFirstPass
  /\ 7 \in Range(stagesRun) => docNamesEarlier \subseteq currentlyKnownMacroNames

\* C6 witness: a file that declares nothing itself has run its arity
\* inference after an earlier file declared a command that neither the
\* default nor the user-provided table holds.
C6_Witness ==
  /\ 7 \in Range(stagesRun)
  /\ docNamesCurrent = {}
  /\ \E n \in docNamesEarlier :
       n \notin (DOMAIN defaultMacros) \cup (DOMAIN userProvidedMacros)

\* the File Node of a path in the returned result
NodesOf(path) == {f \in Value(result).files : f.filePath = path}

\* C7 as stated: at the end of the run every existing file that a
\* successfully processed file references has been handed to the per-file
\* pipeline and has a File Node in the result.
C7_ReferencedFilesAnnotated ==
  pc = "done" =>
    \A e \in referenced :
      FileExists(e[2]) =>
        e[2] \in Range(annotated) /\ NodesOf(e[2]) # {}

\* C7 amended: at the end of the run every existing file that a successfully
\* processed file references has been dequeued and has exactly one File Node
\* in the result; it has been handed to the per-file pipeline if it could be
\* read, and otherwise its node has no tree and a read error.
C7_ReferencedFilesVisited ==
  pc = "done" =>
    \A e \in referenced :
      FileExists(e[2]) =>
        /\ e[2] \in Range(processingOrder)
        /\ Cardinality(NodesOf(e[2])) = 1
        /\ IF Readable(e[2]) THEN e[2] \in Range(annotated)
           ELSE /\ e[2] \notin Range(annotated)
                /\ \A f \in NodesOf(e[2]) :
                     f.ast = NULL /\ f.error = "readFailed"

\* C7 witness: the run has ended; a processed file referenced a readable file
\* other than the root, which was handed to the pipeline, and an existing
\* unreadable file, which was not.
C7_Witness ==
  /\ pc = "done"
  /\ \E e \in referenced :
       /\ Readable(e[2])
       /\ e[2] # currentRootFilePath
       /\ e[2] \in Range(annotated)
  /\ \E e \in referenced :
       /\ FileExists(e[2])
       /\ ~Readable(e[2])
       /\ e[2] \notin Range(annotated)

\* C8 as stated: no failure of a file-system operation is thrown to the
\* caller of parse.
C8_NothingThrown == pc # "thrown"

\* C9: a file whose read or raw parse failed has a File Node without a tree
\* and a per-path error, and every path that was in the queue at that moment
\* is processed before the run ends.
C9_TraversalContinuesAfterFailure ==
  /\ [](\A p \in failedFiles :
          /\ p \in DOMAIN projectAstMap
          /\ projectAstMap[p] = NULL
          /\ p \in DOMAIN projectFileErrors)
  /\ ((pendingAtFailure # {}) ~>
        (pc = "done" /\ pendingAtFailure \subseteq Range(processingOrder)))

\* C9 witness: the run has ended; the raw parse of one file failed while
\* another path was waiting in the queue, and that path was processed
\* afterwards and has a tree.
C9_Witness ==
  /\ pc = "done"
  /\ \E p \in failedFiles : projectFileErrors[p] = "parseFailed"
  /\ \E r \in pendingAtFailure :
       /\ r \notin failedFiles
       /\ r \in Range(annotated)
       /\ projectAstMap[r] = TREE

AllStages == <<1, 2, 3, 4, 5, 6, 7, 8, 9>>

MacroNode(name) == [type |-> "macro", name |-> name, children |-> <<>>]

GroupNode(children) == [type |-> "group", name |-> "", children |-> children]

WhitespaceNode == [type |-> "whitespace", name |-> "", children |-> <<>>]

StringNode == [type |-> "string", name |-> "", children |-> <<>>]

\* the sibling nodes of the modelled trees: two command names, whitespace,
\* text, an empty group and a group that itself holds a command and a group
SiblingNodes ==
  {MacroNode("foo"), MacroNode("frac"), WhitespaceNode, StringNode,
   GroupNode(<<>>), GroupNode(<<MacroNode("foo"), GroupNode(<<>>)>>)}

\* the content arrays of the modelled trees
AstTrees == UNION {[1..n -> SiblingNodes] : n \in 0..MaxNodes}

\* the while loop of the visitor: the groups counted from currentIndex on
\* (1-based), whitespace passed over, anything else ends the count
RECURSIVE ArgCount(_, _)
ArgCount(parentContent, currentIndex) ==
  IF currentIndex > Len(parentContent) THEN 0
  ELSE IF parentContent[currentIndex].type = "whitespace"
  THEN ArgCount(parentContent, currentIndex + 1)
  ELSE IF parentContent[currentIndex].type = "group"
  THEN 1 + ArgCount(parentContent, currentIndex + 1)
  ELSE 0

\* a visitor that keeps the count of the occurrence visited last
Recorded_LastWins(potentialCustomMacros, macroName, argCount) ==
  Spread(potentialCustomMacros, macroName :> argCount)

\* the visitor's final statement: the count is stored when the name is new
\* or its stored count is smaller
Recorded(potentialCustomMacros, macroName, argCount) ==
  IF macroName \notin DOMAIN potentialCustomMacros
     \/ potentialCustomMacros[macroName] < argCount
  THEN Spread(potentialCustomMacros, macroName :> argCount)
  ELSE potentialCustomMacros

\* visit(astTree, visitorFn) over one content array from index i on: a node
\* is visited before its children, children before the next sibling
RECURSIVE Visit(_, _, _, _)
Visit(content, i, known, potentialCustomMacros) ==
  IF i > Len(content) THEN potentialCustomMacros
  ELSE LET node == content[i]
           here == IF node.type = "macro" /\ node.name # ""
                      /\ node.name \notin known
                   THEN Recorded(potentialCustomMacros, node.name,
                                 ArgCount(content, i + 1))
                   ELSE potentialCustomMacros
           below == IF node.type = "group"
                    THEN Visit(node.children, 1, known, here)
                    ELSE here
       IN  Visit(content, i + 1, known, below)

\* the signature loop: 'm' argCount times, joined by single spaces, as the
\* sequence of its characters
RECURSIVE SignatureOfArgCount(_)
SignatureOfArgCount(argCount) ==
  IF argCount <= 0 THEN <<>>
  ELSE LET signature == SignatureOfArgCount(argCount - 1)
       IN  signature \o (IF signature # <<>> THEN <<" ">> ELSE <<>>) \o <<"m">>

\* extractInferredUsedMacros(astTree) with the known names the provider gives
ExtractInferredUsedMacrosFromAst(astTree, known) ==
  LET potentialCustomMacros == Visit(astTree, 1, known, EmptyRecord)
  IN  [n \in DOMAIN potentialCustomMacros |->
         [signature |-> SignatureOfArgCount(potentialCustomMacros[n])]]

InferInit ==
  /\ pc = "infer"
  /\ defaultMacros = EmptyRecord
  /\ userProvidedMacros = EmptyRecord
  /\ definedInDocMacros = EmptyRecord
  /\ inferredUsedMacros = EmptyRecord
  /\ ctanEnvs = EmptyRecord
  /\ userProvidedEnvs = EmptyRecord
  /\ definedInDocEnvs = EmptyRecord
  /\ lastCall = NoCall
  /\ IdleRun
  /\ fnArg \in {Some([astTree |-> t, known |-> k]) :
                  t \in AstTrees, k \in SUBSET ModelNames}
  /\ fnResult = None

\* one call of extractInferredUsedMacros
CallExtractInferredUsedMacros ==
  /\ pc = "infer"
  /\ fnResult = None
  /\ \E a \in fnArg :
       fnResult' = Some(ExtractInferredUsedMacrosFromAst(a.astTree, a.known))
  /\ UNCHANGED <<pc, storeVars, lastCall, fileSystem, initialParserOptions,
                 processorVars, parserVars,
                 result, historyVars, entryObserved, usageObserved,
                 previousRun, fnArg>>

InferNext == CallExtractInferredUsedMacros

InferSpec == InferInit /\ [][InferNext]_vars

\* ------------------------------------------------------------------------
\* Environment declarations of one file (stage 4 on its own)
\* ------------------------------------------------------------------------

\* the NewEnvironmentSpec list that listNewEnvironments returns for a file,
\* in document order
EnvSpecLists ==
  UNION {[1..n -> [name : {"thm", "box"}, signature : EnvSigPool]] :
           n \in 0..MaxDecls}

\* extractDefinedEnvironmentsFromAst: the loop over envSpecs, a later spec
\* of a name assigning over the earlier one
RECURSIVE ExtractDefinedEnvironmentsFromAst(_, _)
ExtractDefinedEnvironmentsFromAst(envSpecs, newEnvs) ==
  IF envSpecs = <<>> THEN newEnvs
  ELSE LET spec == Head(envSpecs)
       IN  ExtractDefinedEnvironmentsFromAst(
             Tail(envSpecs),
             IF spec.name # ""
             THEN Spread(newEnvs, spec.name :> spec.signature)
             ELSE newEnvs)

\* the logger.warn calls of stage 4 that report a re-declaration: neither
\* extractDefinedEnvironmentsFromAst nor addDocumentDefinedEnvironments
\* makes one
RedeclarationWarnings(envSpecs, docEnvs) == <<>>

\* MacroHandler.extractAndProcessEnvironmentDefinitions: the names its loop
\* warns about, namely those held by definedInDocEnvs before the call
RECURSIVE MacroHandlerWarnings(_, _)
MacroHandlerWarnings(newEnvSpecs, docEnvs) ==
  IF newEnvSpecs = <<>> THEN <<>>
  ELSE (IF Head(newEnvSpecs).name \in DOMAIN docEnvs
        THEN <<Head(newEnvSpecs).name>> ELSE <<>>)
       \o MacroHandlerWarnings(Tail(newEnvSpecs), docEnvs)

EnvDeclInit ==
  /\ pc = "stage4"
  /\ defaultMacros = EmptyRecord
  /\ userProvidedMacros = EmptyRecord
  /\ definedInDocMacros = EmptyRecord
  /\ inferredUsedMacros = EmptyRecord
  /\ ctanEnvs = CtanEnvironments
  /\ userProvidedEnvs = EmptyRecord
  /\ definedInDocEnvs \in {EmptyRecord, [n \in {"thm"} |-> <<"m">>]}
  /\ lastCall = NoCall
  /\ IdleRun
  /\ fnArg \in {Some(l) : l \in EnvSpecLists}
  /\ fnResult = None

\* stage 4 of parseFileContent for a file with the given declarations
StageExtractEnvironments ==
  /\ pc = "stage4"
  /\ \E envSpecs \in fnArg :
       LET docEnvs == ExtractDefinedEnvironmentsFromAst(envSpecs, EmptyRecord)
       IN  /\ AddDocumentDefinedEnvironments(docEnvs)
           /\ fnResult' =
                Some([by |-> "DefinitionExtractor",
                      warnings |-> RedeclarationWarnings(envSpecs,
                                                         definedInDocEnvs),
                      error |-> UNDEF])
  /\ pc' = "stage5"
  /\ UNCHANGED <<defaultMacros, userProvidedMacros, definedInDocMacros,
                 inferredUsedMacros, ctanEnvs, userProvidedEnvs, fileSystem, initialParserOptions,
                 processorVars, parserVars, result, historyVars,
                 entryObserved, usageObserved,
                 previousRun, fnArg>>

\* the same file handed to MacroHandler.extractAndProcessEnvironmentDefinitions
MacroHandlerExtractEnvironments ==
  /\ pc = "stage4"
  /\ \E newEnvSpecs \in fnArg :
       LET newEnvsToRegister ==
             ExtractDefinedEnvironmentsFromAst(newEnvSpecs, EmptyRecord)
       IN  /\ AddDocumentDefinedEnvironments(newEnvsToRegister)
           /\ fnResult' =
                Some([by |-> "MacroHandler",
                      warnings |-> MacroHandlerWarnings(newEnvSpecs,
                                                        definedInDocEnvs),
                      error |-> UNDEF])
  /\ pc' = "stage5"
  /\ UNCHANGED <<defaultMacros, userProvidedMacros, definedInDocMacros,
                 inferredUsedMacros, ctanEnvs, userProvidedEnvs, fileSystem, initialParserOptions,
                 processorVars, parserVars, result, historyVars,
                 entryObserved, usageObserved,
                 previousRun, fnArg>>

EnvDeclNext == StageExtractEnvironments \/ MacroHandlerExtractEnvironments

EnvDeclSpec == EnvDeclInit /\ [][EnvDeclNext]_vars

\* ------------------------------------------------------------------------
\* commandDefinitionUtils: the signature of a declared environment
\* ------------------------------------------------------------------------

\* an Ast.Argument: its marks and the printed text of its content, as the
\* sequence of its characters
Argument(openMark, closeMark, content) ==
  [openMark |-> openMark, closeMark |-> closeMark, content |-> content]

\* an optional argument that was not given
AbsentArgument == Argument("", "", <<>>)

Digits == {"0", "1", "2"}

DigitValue(c) == CASE c = "0" -> 0 [] c = "1" -> 1 [] c = "2" -> 2

\* the texts of the modelled argument-count arguments
CountTexts ==
  UNION {[1..n -> Digits \cup {"-", "x", " "}] : n \in 0..MaxCountLen}

\* the value of a maximal prefix of decimal digits, None when it is empty
RECURSIVE DigitPrefix(_, _)
DigitPrefix(text, acc) ==
  IF text = <<>> \/ Head(text) \notin Digits THEN acc
  ELSE DigitPrefix(Tail(text),
                   Some(10 * (IF acc = None THEN 0 ELSE Value(acc))
                          + DigitValue(Head(text))))

\* parseInt(text, 10): leading whitespace is passed over, a sign is read,
\* then the longest prefix of digits; whatever follows is ignored; None is
\* NaN
RECURSIVE ParseInt(_)
ParseInt(text) ==
  IF text # <<>> /\ Head(text) = " " THEN ParseInt(Tail(text))
  ELSE IF text # <<>> /\ Head(text) = "-"
  THEN LET v == DigitPrefix(Tail(text), None)
       IN  IF v = None THEN None ELSE Some(0 - Value(v))
  ELSE DigitPrefix(text, None)

\* String.prototype.trim on a sequence of characters
RECURSIVE Trim(_)
Trim(text) ==
  IF text = <<>> THEN <<>>
  ELSE IF Head(text) = " " THEN Trim(Tail(text))
  ELSE IF text[Len(text)] = " " THEN Trim(SubSeq(text, 1, Len(text) - 1))
  ELSE text

\* the loops that build the signature and the parameter list together
RECURSIVE MandatoryParameters(_, _, _)
MandatoryParameters(i, numArgs, acc) ==
  IF i >= numArgs THEN acc
  ELSE MandatoryParameters(
         i + 1, numArgs,
         [signature |-> acc.signature
                          \o (IF i > 0 THEN <<" ">> ELSE <<>>) \o <<"m">>,
          parameters |-> Append(acc.parameters, "mandatory")])

\* parseEnvironmentArgsForSignature; args is indexed from 0 as in the code
ParseEnvironmentArgsForSignature(args, numArgsIndex, defaultOptArgIndex) ==
  LET numArgsArg == args[numArgsIndex]
      defaultOptArg == args[defaultOptArgIndex]
      bracketed(a) == a.openMark = "[" /\ a.closeMark = "]"
      numArgsVal == IF bracketed(numArgsArg) THEN ParseInt(numArgsArg.content)
                    ELSE None
      numArgs == IF numArgsVal # None /\ Value(numArgsVal) >= 0
                 THEN Value(numArgsVal) ELSE 0
      hasDefault == numArgs > 0 /\ bracketed(defaultOptArg)
      built == IF numArgs > 0
               THEN IF hasDefault
                    THEN MandatoryParameters(
                           1, numArgs,
                           [signature |-> <<"o">>,
                            parameters |-> <<"optional">>])
                    ELSE MandatoryParameters(
                           0, numArgs,
                           [signature |-> <<>>, parameters |-> <<>>])
               ELSE [signature |-> <<>>, parameters |-> <<>>]
  IN  [signature |-> Trim(built.signature), parameters |-> built.parameters,
       numArgs |-> numArgs]

\* getEnvironmentSignatureAndParams, without the DeclareTColorBox branch
GetEnvironmentSignatureAndParams(args, definingCommand) ==
  IF definingCommand \in {"newenvironment", "renewenvironment",
                          "provideenvironment"}
  THEN ParseEnvironmentArgsForSignature(args, 3, 4)
  ELSE IF definingCommand = "newtcolorbox"
  THEN ParseEnvironmentArgsForSignature(args, 2, 3)
  ELSE IF definingCommand = "newtheorem"
  THEN [signature |-> <<"o">>, parameters |-> <<"optional">>, numArgs |-> 1]
  ELSE [signature |-> <<>>, parameters |-> <<>>, numArgs |-> 0]

\* the argument-count and default-value arguments of a declaration
CountArguments ==
  {AbsentArgument} \cup {Argument("[", "]", t) : t \in CountTexts}

DefaultArguments ==
  {AbsentArgument, Argument("[", "]", <<>>), Argument("[", "]", <<"x">>)}

\* the args array of a declaration by the given command: the count and the
\* default at the positions of its layout, braces elsewhere
ArgsOf(definingCommand, count, default) ==
  LET brace == Argument("{", "}", <<"x">>)
      at == IF definingCommand = "newtcolorbox" THEN 2 ELSE 3
  IN  [i \in 0..6 |-> IF i = at THEN count
                      ELSE IF i = at + 1 THEN default
                      ELSE brace]

CountedDefiners ==
  {"newenvironment", "renewenvironment", "provideenvironment", "newtcolorbox"}

EnvSigInit ==
  /\ pc = "signature"
  /\ defaultMacros = EmptyRecord
  /\ userProvidedMacros = EmptyRecord
  /\ definedInDocMacros = EmptyRecord
  /\ inferredUsedMacros = EmptyRecord
  /\ ctanEnvs = EmptyRecord
  /\ userProvidedEnvs = EmptyRecord
  /\ definedInDocEnvs = EmptyRecord
  /\ lastCall = NoCall
  /\ IdleRun
  /\ fnArg \in {Some([definingCommand |-> d, count |-> c, default |-> o]) :
                  d \in CountedDefiners \cup {"newtheorem", "newlist"},
                  c \in CountArguments, o \in DefaultArguments}
  /\ fnResult = None

\* one call of getEnvironmentSignatureAndParams
CallGetEnvironmentSignatureAndParams ==
  /\ pc = "signature"
  /\ fnResult = None
  /\ \E a \in fnArg :
       fnResult' = Some(GetEnvironmentSignatureAndParams(
                          ArgsOf(a.definingCommand, a.count, a.default),
                          a.definingCommand))
  /\ UNCHANGED <<pc, storeVars, lastCall, fileSystem, initialParserOptions,
                 processorVars, parserVars,
                 result, historyVars, entryObserved, usageObserved,
                 previousRun, fnArg>>

EnvSigNext == CallGetEnvironmentSignatureAndParams

EnvSigSpec == EnvSigInit /\ [][EnvSigNext]_vars

\* ------------------------------------------------------------------------
\* commandDefinitionUtils: the name of a declared environment
\* ------------------------------------------------------------------------

\* ALL_ENVIRONMENT_DEFINERS
AllEnvironmentDefiners ==
  {"newenvironment", "renewenvironment", "provideenvironment", "newtcolorbox",
   "DeclareTColorBox", "newtheorem", "newlist"}

\* the environment names declared in the modelled files
DeclaredNames == {<<"thm">>, <<"box">>, <<"lst">>}

\* node.args[k]; undefined when the array is shorter
ArgAt(args, k) == IF k \in DOMAIN args THEN args[k] ELSE AbsentArgument

\* the position of the first mandatory token of a signature (from 1)
FirstMandatory(signature) ==
  CHOOSE i \in 1..Len(signature) :
    /\ signature[i] = "m"
    /\ \A j \in 1..(i - 1) : signature[j] # "m"

\* the positions of the tokens of a signature that an occurrence may omit
OmissibleSlots(signature) ==
  {i \in 1..Len(signature) : signature[i] \in {"o", "s"}}

\* the args array of an occurrence shaped by a signature, one slot per token:
\* a braced argument per "m" (the first one holds the declared name), a
\* bracketed one per given "o", the star per given "s", and an argument
\* without marks or content for what the occurrence omits
ArgsBySignature(signature, name, given) ==
  [k \in 0..(Len(signature) - 1) |->
     LET i == k + 1
     IN  IF signature[i] = "m"
         THEN Argument("{", "}",
                       IF i = FirstMandatory(signature) THEN name
                       ELSE <<"x">>)
         ELSE IF i \notin given THEN AbsentArgument
         ELSE IF signature[i] = "s" THEN Argument("", "", <<"*">>)
         ELSE Argument("[", "]", <<"1">>)]

\* the result of getEnvironmentNameFromMacro when no name is found
NoName == [found |-> FALSE, name |-> <<>>]

\* getEnvironmentNameFromMacro
GetEnvironmentNameFromMacro(args, definingCommand) ==
  IF DOMAIN args = {} THEN NoName
  ELSE LET nameArg ==
             IF definingCommand \in {"newenvironment", "renewenvironment",
                                     "provideenvironment"}
             THEN ArgAt(args, 2)
             ELSE IF definingCommand = "newtcolorbox" THEN ArgAt(args, 1)
             ELSE IF definingCommand = "newtheorem"
             THEN IF ArgAt(args, 0).content = <<"*">> THEN ArgAt(args, 1)
                  ELSE ArgAt(args, 0)
             ELSE ArgAt(args, 0)
           printedName == Trim(nameArg.content)
       IN  IF Len(nameArg.content) > 0 /\ printedName # <<>>
           THEN [found |-> TRUE, name |-> printedName]
           ELSE NoName

\* the occurrences of declaring commands in the modelled files, each shaped
\* by the signature the built-in table gives the command
EnvNameInit ==
  /\ pc = "name"
  /\ defaultMacros = DefaultMacroSignatures
  /\ userProvidedMacros = EmptyRecord
  /\ definedInDocMacros = EmptyRecord
  /\ inferredUsedMacros = EmptyRecord
  /\ ctanEnvs = CtanEnvironments
  /\ userProvidedEnvs = EmptyRecord
  /\ definedInDocEnvs = EmptyRecord
  /\ lastCall = NoCall
  /\ IdleRun
  /\ fnArg \in UNION {{Some([definingCommand |-> d, name |-> n, given |-> g]) :
                         n \in DeclaredNames,
                         g \in SUBSET OmissibleSlots(DefaultMacroSignatures[d])} :
                       d \in AllEnvironmentDefiners}
  /\ fnResult = None

\* macroToEnvironmentSpec, lines 226-235: the name of the spec, taken from
\* the arguments Pass 1 attached with the merged view
CallGetEnvironmentNameFromMacro ==
  /\ pc = "name"
  /\ fnResult = None
  /\ \E a \in fnArg :
       fnResult' = Some(GetEnvironmentNameFromMacro(
                          ArgsBySignature(
                            GetEffectiveMacroInfoRecord[a.definingCommand],
                            a.name, a.given),
                          a.definingCommand))
  /\ UNCHANGED <<pc, storeVars, lastCall, fileSystem, initialParserOptions,
                 processorVars, parserVars,
                 result, historyVars, entryObserved, usageObserved,
                 previousRun, fnArg>>

EnvNameNext == CallGetEnvironmentNameFromMacro

EnvNameSpec == EnvNameInit /\ [][EnvNameNext]_vars

\* ------------------------------------------------------------------------
\* Root determination (C11, C12, C13)
\* ------------------------------------------------------------------------

\* the listed files whose content is a root file's
IndicatorFiles(entry) == Range(entry.texFiles) \cap entry.indicator

\* the listed files that determineRootFile can read and whose content is a
\* root file's
ReadableIndicatorFiles(entry) ==
  {f \in IndicatorFiles(entry) : fileSystem[f] = "ok"}

IndexIn(seq, x) == CHOOSE i \in 1..Len(seq) : seq[i] = x

\* the entry path is missing, is a file without a recognized extension, or is
\* a directory with no conventional-named file and no root-indicator file
NoRootCase(entry) ==
  \/ entry.kind = "missing"
  \/ entry.kind = "file" /\ ~entry.isTex
  \/ entry.kind = "dir" /\ entry.common = NoPath /\ IndicatorFiles(entry) = {}

\* C11: when no root file can be determined, the run ends at once with a
\* result whose root is null, whose global error list is non-empty and whose
\* file list is empty, and no file is processed.
C11_NoRootResult ==
  NoRootCase(entryObserved) =>
    /\ pc = "done"
    /\ result # None
    /\ \A r \in result :
         /\ r.rootFilePath = NoPath
         /\ r.errors # None
         /\ \A errs \in r.errors : Len(errs) >= 1
         /\ r.files = {}
    /\ processingOrder = <<>>
    /\ annotated = <<>>
    /\ projectAstMap = EmptyRecord

\* C11 witness: the entry was a directory without a conventional-named file,
\* with listed files none of which has a root indicator, and the run ended.
C11_Witness ==
  /\ pc = "done"
  /\ entryObserved.kind = "dir"
  /\ entryObserved.common = NoPath
  /\ Len(entryObserved.texFiles) = 2
  /\ IndicatorFiles(entryObserved) = {}
  /\ result # None

\* C12 as stated: a directory with exactly one listed file whose content has
\* a root indicator makes that file the root, whatever else it contains.
C12_SingleIndicatorIsRoot ==
  (entryObserved.kind = "dir" /\ Cardinality(IndicatorFiles(entryObserved)) = 1)
    => /\ pc = "loop"
       /\ currentRootFilePath \in IndicatorFiles(entryObserved)

\* C12 amended: a directory without a conventional-named file, with exactly
\* one listed file whose content has a root indicator, that file being
\* readable, makes that file the root, whatever other files are listed; when
\* a conventional-named file exists, it is the root instead.
C12_SingleIndicatorIsRootUnlessConventional ==
  (entryObserved.kind = "dir" /\ Cardinality(IndicatorFiles(entryObserved)) = 1)
    => IF entryObserved.common # NoPath
       THEN pc = "loop" /\ currentRootFilePath = entryObserved.common
       ELSE IF ReadableIndicatorFiles(entryObserved) # {}
       THEN /\ pc = "loop"
            /\ currentRootFilePath \in ReadableIndicatorFiles(entryObserved)
       ELSE pc = "done" /\ currentRootFilePath = NoPath

\* C12 witness: no conventional-named file, two listed files, the second one
\* is the only one with a root indicator, and it became the root.
C12_Witness ==
  /\ pc = "loop"
  /\ entryObserved.kind = "dir"
  /\ entryObserved.common = NoPath
  /\ Len(entryObserved.texFiles) = 2
  /\ IndicatorFiles(entryObserved) = {entryObserved.texFiles[2]}
  /\ currentRootFilePath = entryObserved.texFiles[2]

ContentArrays(astTree) ==
  {astTree} \cup {astTree[i].children : i \in {j \in 1..Len(astTree) :
                                              astTree[j].type = "group"}}

\* the occurrences of a command name: <<content array, index>>
OccurrencesOf(name, astTree) ==
  {<<c, i>> \in UNION {{c} \X (1..Len(c)) : c \in ContentArrays(astTree)} :
     c[i].type = "macro" /\ c[i].name = name}

\* the brace groups that immediately follow position i of a content array:
\* the groups before the first sibling that is neither group nor whitespace
GroupsFollowing(c, i) ==
  LET stops == {j \in (i + 1)..Len(c) :
                  c[j].type \notin {"group", "whitespace"}}
      last == IF stops = {} THEN Len(c)
              ELSE (CHOOSE j \in stops : \A k \in stops : j <= k) - 1
  IN  Cardinality({j \in (i + 1)..last : c[j].type = "group"})

MaxOf(S) == CHOOSE x \in S : \A y \in S : y <= x

\* 'm' n times joined by single spaces, character by character
IsMandatorySignature(signature, n) ==
  /\ Len(signature) = IF n = 0 THEN 0 ELSE 2 * n - 1
  /\ \A k \in 1..Len(signature) :
       signature[k] = IF k % 2 = 1 THEN "m" ELSE " "

\* C14: extractInferredUsedMacros returns an entry exactly for the command
\* names that occur in the tree and are absent from the known set, and the
\* signature of each is N mandatory parameters, N being the largest number
\* of brace groups that immediately follow one of its occurrences.
C14_InferredArityIsMaximum ==
  \A a \in fnArg : \A r \in fnResult :
    LET used == {n \in ModelNames : OccurrencesOf(n, a.astTree) # {}}
    IN  /\ DOMAIN r = used \ a.known
        /\ \A n \in DOMAIN r :
             IsMandatorySignature(
               r[n].signature,
               MaxOf({GroupsFollowing(o[1], o[2]) :
                        o \in OccurrencesOf(n, a.astTree)}))

\* C14 witness: \foo{a} and later \foo{x}{y} with foo unknown gave "m m".
C14_Witness ==
  /\ fnArg = Some([astTree |-> <<MacroNode("foo"), GroupNode(<<>>),
                                 MacroNode("foo"), GroupNode(<<>>),
                                 GroupNode(<<>>)>>,
                   known |-> {"frac"}])
  /\ fnResult = Some([n \in {"foo"} |-> [signature |-> <<"m", " ", "m">>]])

\* ------------------------------------------------------------------------
\* Environment re-declaration (C15)
\* ------------------------------------------------------------------------

\* the names a file declares more than once
DeclaredTwice(envSpecs) ==
  {envSpecs[i].name : i \in {j \in 1..Len(envSpecs) :
     \E k \in 1..Len(envSpecs) : k # j /\ envSpecs[k].name = envSpecs[j].name}}

LastDeclaration(envSpecs, name) ==
  envSpecs[CHOOSE i \in 1..Len(envSpecs) :
             /\ envSpecs[i].name = name
             /\ \A k \in (i + 1)..Len(envSpecs) : envSpecs[k].name # name]

\* C15 as stated: after a file that declares a name twice, the
\* document-defined entry is the later declaration, a warning was emitted
\* for the re-declared name, and no error is recorded.
C15_RedeclarationKeepsLaterAndWarns ==
  \A envSpecs \in fnArg : \A r \in fnResult :
    \A name \in DeclaredTwice(envSpecs) :
      /\ definedInDocEnvs[name] = LastDeclaration(envSpecs, name).signature
      /\ r.error = UNDEF
      /\ r.warnings # <<>>

\* the part of C15 that the code does: the later declaration is kept and no
\* error is recorded
C15_RedeclarationKeepsLater ==
  \A envSpecs \in fnArg : \A r \in fnResult :
    \A name \in DeclaredTwice(envSpecs) :
      /\ definedInDocEnvs[name] = LastDeclaration(envSpecs, name).signature
      /\ r.error = UNDEF

\* ------------------------------------------------------------------------
\* Merge priority of environments (C16)
\* ------------------------------------------------------------------------

\* C16: after any sequence of insertions the merged environment view has
\* exactly the names of the three categories and gives each name the entry
\* of the highest-priority category that holds it:
\* document-defined > user-provided > built-in.
C16_EnvironmentMergePriority ==
  LET merged == GetEffectiveEnvInfoRecord
  IN  /\ DOMAIN merged = (DOMAIN ctanEnvs) \cup (DOMAIN userProvidedEnvs)
                           \cup (DOMAIN definedInDocEnvs)
      /\ \A n \in DOMAIN merged :
           merged[n] =
             IF n \in DOMAIN definedInDocEnvs THEN definedInDocEnvs[n]
             ELSE IF n \in DOMAIN userProvidedEnvs THEN userProvidedEnvs[n]
             ELSE ctanEnvs[n]

\* C16 witness: after an insertion of environments, one name is held by all
\* three categories with three different signatures, and another name by
\* the user-provided category only.
C16_Witness ==
  /\ lastCall.op = "addDocumentDefinedEnvironments"
  /\ \E n \in DOMAIN ctanEnvs :
       /\ n \in DOMAIN userProvidedEnvs
       /\ n \in DOMAIN definedInDocEnvs
       /\ ctanEnvs[n] # userProvidedEnvs[n]
       /\ userProvidedEnvs[n] # definedInDocEnvs[n]
       /\ ctanEnvs[n] # definedInDocEnvs[n]
  /\ \E n \in DOMAIN userProvidedEnvs :
       n \notin (DOMAIN ctanEnvs) \cup (DOMAIN definedInDocEnvs)

\* ------------------------------------------------------------------------
\* Monotonic growth of the Definition Store (C17)
\* ------------------------------------------------------------------------

\* C17: no step of a run removes a name from a category of the store, nor
\* from a merged view.
C17_StoreOnlyGrows ==
  [][/\ DOMAIN defaultMacros \subseteq DOMAIN defaultMacros'
     /\ DOMAIN userProvidedMacros \subseteq DOMAIN userProvidedMacros'
     /\ DOMAIN definedInDocMacros \subseteq DOMAIN definedInDocMacros'
     /\ DOMAIN inferredUsedMacros \subseteq DOMAIN inferredUsedMacros'
     /\ DOMAIN ctanEnvs \subseteq DOMAIN ctanEnvs'
     /\ DOMAIN userProvidedEnvs \subseteq DOMAIN userProvidedEnvs'
     /\ DOMAIN definedInDocEnvs \subseteq DOMAIN definedInDocEnvs'
     /\ DOMAIN GetEffectiveMacroInfoRecord
          \subseteq DOMAIN GetEffectiveMacroInfoRecord'
     /\ DOMAIN GetEffectiveEnvInfoRecord
          \subseteq DOMAIN GetEffectiveEnvInfoRecord']_vars

\* C17 witness: a run of two processed files has ended with names in the
\* document-defined command and environment categories and in the inferred
\* category.
C17_Witness ==
  /\ pc = "done"
  /\ Len(annotated) >= 2
  /\ definedInDocMacros # EmptyRecord
  /\ definedInDocEnvs # EmptyRecord
  /\ inferredUsedMacros # EmptyRecord

\* ------------------------------------------------------------------------
\* The File Node table (C18)
\* ------------------------------------------------------------------------

\* the per-path error of a node, UNDEF when there is none
NodeError(fileErrors, path) ==
  IF path \in DOMAIN fileErrors THEN fileErrors[path] ELSE UNDEF

\* C18: a node, once written, keeps its tree and its error and is never
\* removed; errors exist only for paths that have a node and nodes only for
\* visited paths; the returned result lists exactly one entry for every
\* visited path, with that path's tree (null included) and error.
C18_OneNodePerPathWrittenOnce ==
  /\ [][\A p \in DOMAIN projectAstMap :
          /\ p \in DOMAIN projectAstMap'
          /\ projectAstMap'[p] = projectAstMap[p]
          /\ NodeError(projectFileErrors', p) = NodeError(projectFileErrors, p)
       ]_vars
  /\ [](/\ DOMAIN projectFileErrors \subseteq DOMAIN projectAstMap
        /\ DOMAIN projectAstMap \subseteq parsedFilePaths
        /\ (pc = "done" =>
              /\ result # None
              /\ DOMAIN projectAstMap = parsedFilePaths
              /\ \A r \in result :
                   /\ {f.filePath : f \in r.files} = parsedFilePaths
                   /\ Cardinality(r.files) = Cardinality(parsedFilePaths)
                   /\ \A f \in r.files :
                        /\ f.ast = projectAstMap[f.filePath]
                        /\ f.error = NodeError(projectFileErrors, f.filePath)))

\* C18 witness: the run has ended with three visited paths: one with a tree,
\* one whose read failed and one that was referenced but is missing.
C18_Witness ==
  /\ pc = "done"
  /\ Cardinality(parsedFilePaths) = 3
  /\ \E r \in result :
       /\ \E f \in r.files : f.ast = TREE
       /\ \E f \in r.files : f.ast = NULL /\ f.error = "readFailed"
       /\ \E f \in r.files : f.ast = NULL /\ f.error = "notFound"

\* ------------------------------------------------------------------------
\* Environment signatures by argument count (C19)
\* ------------------------------------------------------------------------

\* the text is a decimal integer: an optional sign and one or more digits,
\* surrounding whitespace aside
IsNumber(text) ==
  LET t == Trim(text)
      d == IF t # <<>> /\ Head(t) = "-" THEN Tail(t) ELSE t
  IN  d # <<>> /\ \A k \in 1..Len(d) : d[k] \in Digits

\* `first` then n - 1 times 'm', joined by single spaces
IsSignatureOf(signature, first, n) ==
  /\ Len(signature) = IF n = 0 THEN 0 ELSE 2 * n - 1
  /\ \A k \in 1..Len(signature) :
       signature[k] = IF k = 1 THEN first
                      ELSE IF k % 2 = 1 THEN "m" ELSE " "

TokensOf(signature) == Cardinality({k \in 1..Len(signature) : signature[k] # " "})

\* C19 as stated: with a bracketed count that is a number N > 0 the
\* signature is 'o' and N-1 'm' when a bracketed default is present and N
\* 'm' when it is not; with a count that is absent, zero, negative or not a
\* number the signature is empty; the signature has as many tokens as there
\* are parameters.
C19_SignatureByDeclaredCount ==
  \A a \in fnArg : \A r \in fnResult :
    a.definingCommand \in CountedDefiners =>
      LET counted == a.count.openMark = "[" /\ IsNumber(a.count.content)
          n == IF counted THEN Value(ParseInt(a.count.content)) ELSE 0
      IN  /\ IF counted /\ n > 0
             THEN IF a.default.openMark = "["
                  THEN IsSignatureOf(r.signature, "o", n)
                  ELSE IsSignatureOf(r.signature, "m", n)
             ELSE r.signature = <<>>
          /\ TokensOf(r.signature) = Len(r.parameters)

\* what the code does for C19: the count is what parseInt reads off the
\* front of the bracketed text, so a text that begins with digits counts as
\* its leading number whatever follows.
C19_SignatureByParsedCount ==
  \A a \in fnArg : \A r \in fnResult :
    a.definingCommand \in CountedDefiners =>
      LET parsed == IF a.count.openMark = "[" THEN ParseInt(a.count.content)
                    ELSE None
          n == IF parsed # None /\ Value(parsed) > 0 THEN Value(parsed) ELSE 0
      IN  /\ IF n > 0
             THEN IF a.default.openMark = "["
                  THEN IsSignatureOf(r.signature, "o", n)
                  ELSE IsSignatureOf(r.signature, "m", n)
             ELSE r.signature = <<>>
          /\ TokensOf(r.signature) = Len(r.parameters)
          /\ r.numArgs = n

\* ------------------------------------------------------------------------
\* The fixed pipeline of one file (C21)
\* ------------------------------------------------------------------------

\* the merged command view of the Store as it stands
MergedNow ==
  MergeMacroRecords(inferredUsedMacros, defaultMacros, userProvidedMacros,
                    definedInDocMacros)

\* a shaping pass completes: it was entered right after the registration
\* `op` and the view it stored is the merged view of the Store after that
\* registration
PassUsesViewAfter(from, to, op, storedView) ==
  (pc = from /\ pc' = to) => /\ lastCall.op = op
                             /\ storedView = MergedNow

\* C21: for every file, whatever it contains, the stages run so far are
\* 1, 2, 3, ... in this order, each once; a file whose raw parse succeeded and
\* in which no step threw has run all of: command declarations, Pass 1,
\* environment declarations, Pass 2, block-structure shaping, inference,
\* Pass 3, include extraction; and every shaping pass uses the merged view of
\* the Store as it is after the registration that precedes the pass.
C21_FixedPipeline ==
  /\ [](/\ \A i \in 1..Len(stagesRun) : stagesRun[i] = i
        /\ (pc = "record" /\ threw = {}) => stagesRun = AllStages)
  /\ [][/\ PassUsesViewAfter("stage3", "stage4", "addDocumentDefinedMacros",
                             macrosForFirstPass')
        /\ PassUsesViewAfter("stage5", "stage6",
                             "addDocumentDefinedEnvironments",
                             macrosForSecondPass')
        /\ PassUsesViewAfter("stage8", "stage9", "addInferredUsedMacros",
                             finalMacrosForAttachment')]_vars

\* a file has run the whole pipeline without a throw and a name was inferred
\* in stage 7: the first two passes used the same view, the last one a view
\* that holds the inferred name as well
C21_Witness ==
  /\ pc = "record"
  /\ threw = {}
  /\ stagesRun = AllStages
  /\ macrosForSecondPass = macrosForFirstPass
  /\ finalMacrosForAttachment # macrosForSecondPass

\* ------------------------------------------------------------------------
\* Include references to missing files (C22)
\* ------------------------------------------------------------------------

\* the number of global errors recorded for the missing include target t
MissingErrors(t) ==
  Cardinality({i \in 1..Len(projectGlobalErrors) :
                 projectGlobalErrors[i] = GlobalError("includeMissing", t)})

\* the files that hold an include reference to t
ReferencedBy(t) == {f \in Paths : <<f, t>> \in referenced}

\* C22: an include reference to an unvisited path that does not exist records
\* one global error and marks the path visited; the path is never enqueued
\* nor handed to parseFileContent, and later references to it add no further
\* global error.
C22_MissingIncludeRecordedOnce ==
  \A t \in Paths :
    /\ MissingErrors(t) <= 1
    /\ MissingErrors(t) = 1 =>
         /\ t \in parsedFilePaths
         /\ t \notin Range(PushedPaths(enqueueLog))
         /\ t \notin Range(filesToParseQueue)
         /\ t \notin Range(annotated)
    /\ (pc = "loop" /\ ~FileExists(t) /\ ReferencedBy(t) # {}) =>
         MissingErrors(t) = 1

\* two files have referenced the same missing path and one error stands
C22_Witness ==
  \E t \in Paths :
    /\ pc = "loop"
    /\ ~FileExists(t)
    /\ Cardinality(ReferencedBy(t)) >= 2
    /\ MissingErrors(t) = 1

\* ------------------------------------------------------------------------
\* The inferred category against the other categories (C23)
\* ------------------------------------------------------------------------

\* C23: in every state of the Store no name is both inferred and default or
\* user-provided; a name that is both inferred and document-defined was
\* inferred first and declared afterwards (no step puts a name into the
\* inferred category while it is, or comes to be, document-defined), and the
\* merged view gives the document-defined entry for it.
C23_InferredDisjointFromOthers ==
  /\ [](/\ DOMAIN inferredUsedMacros \cap
             (DOMAIN defaultMacros \cup DOMAIN userProvidedMacros) = {}
        /\ \A n \in DOMAIN inferredUsedMacros \cap DOMAIN definedInDocMacros :
             GetEffectiveMacroInfoRecord[n] = definedInDocMacros[n])
  /\ [][\A n \in DOMAIN inferredUsedMacros' \cap DOMAIN definedInDocMacros' :
          n \in DOMAIN inferredUsedMacros]_vars

\* a name was inferred, then declared with another signature: it is in both
\* categories
C23_Witness ==
  \E n \in DOMAIN inferredUsedMacros \cap DOMAIN definedInDocMacros :
    /\ inferredUsedMacros[n] # definedInDocMacros[n]
    /\ lastCall.op = "addDocumentDefinedMacros"
    /\ n \in DOMAIN lastCall.arg

\* ------------------------------------------------------------------------
\* The name position of the declaring commands (C24)
\* ------------------------------------------------------------------------

\* the name found for the occurrence is the declared one
DeclaredNameFound ==
  \A a \in fnArg : \A r \in fnResult : r.found /\ r.name = a.name

\* C24: with the built-in table in force, an occurrence of a declaring
\* command shaped into one slot per token of the command's built-in
\* signature yields the declared environment name, for every declaring
\* command, starred or not.
C24_NamePositionSelectsDeclaredName == DeclaredNameFound

\* the same for the occurrences whose shaped slots agree with the positions
\* getEnvironmentNameFromMacro reads: newtcolorbox, DeclareTColorBox, newlist
\* and the starred newtheorem
C24_NamePositionWhereLayoutsAgree ==
  \A a \in fnArg :
    (\/ a.definingCommand \in {"newtcolorbox", "DeclareTColorBox", "newlist"}
     \/ a.definingCommand = "newtheorem" /\ 1 \in a.given)
      => DeclaredNameFound

\* ------------------------------------------------------------------------
\* Declared names and inference within one file (C25)
\* ------------------------------------------------------------------------

\* C25: no step of a file's processing puts into the inferred category a
\* name that the file declared in its stage 2, however the file uses the name.
C25_DeclaredNamesNotInferred ==
  [][\A n \in docNamesCurrent :
       n \in DOMAIN inferredUsedMacros' => n \in DOMAIN inferredUsedMacros]_vars

\* stage 7 has run on a file that declares foo and uses it followed by a
\* group: foo is not inferred
C25_Witness ==
  /\ pc = "stage8"
  /\ "foo" \in docNamesCurrent
  /\ "foo" \in DOMAIN usageObserved
  /\ usageObserved["foo"] = MaxArity
  /\ lastCall.op = "addInferredUsedMacros"
  /\ "foo" \notin DOMAIN inferredUsedMacros

\* ------------------------------------------------------------------------
\* Inferred entries are fixed by the first file that infers them (C26)
\* ------------------------------------------------------------------------

\* C26: an entry of the inferred category keeps its signature in every later
\* step of the run, and stage 7 of a later file does not infer the name
\* again: what it hands to the Store holds no name that is already inferred,
\* even when that file uses the name with more groups.
C26_InferredEntriesFixed ==
  [][/\ \A n \in DOMAIN inferredUsedMacros :
          /\ n \in DOMAIN inferredUsedMacros'
          /\ inferredUsedMacros'[n] = inferredUsedMacros[n]
     /\ (pc = "stage7" /\ pc' = "stage8") =>
          DOMAIN lastCall'.arg \cap DOMAIN inferredUsedMacros = {}]_vars

\* an earlier file fixed foo as taking no argument; stage 7 has now run on a
\* file that uses foo followed by a group, and the entry stands
C26_Witness ==
  /\ pc = "stage8"
  /\ "foo" \in DOMAIN usageObserved
  /\ usageObserved["foo"] = 1
  /\ "foo" \in DOMAIN inferredUsedMacros
  /\ inferredUsedMacros["foo"] = Mandatory(0)
  /\ lastCall.arg = EmptyRecord

\* ------------------------------------------------------------------------
\* Errors and trees of the file nodes (C27)
\* ------------------------------------------------------------------------

\* C27: in the node table at every point of a run, and in the returned
\* result, a file has a recorded error exactly if its tree is null.
C27_ErrorIffNoTree ==
  /\ \A p \in DOMAIN projectAstMap :
       (p \in DOMAIN projectFileErrors) <=> (projectAstMap[p] = NULL)
  /\ DOMAIN projectFileErrors \subseteq DOMAIN projectAstMap
  /\ \A r \in result : \A f \in r.files :
       (f.error # UNDEF) <=> (f.ast = NULL)

\* the result holds a file with a tree and no error, a file whose content
\* failed to parse and a referenced file that was not found
C27_Witness ==
  \E r \in result :
    /\ \E f \in r.files : f.ast = TREE /\ f.error = UNDEF
    /\ \E f \in r.files : f.ast = NULL /\ f.error = "parseFailed"
    /\ \E f \in r.files : f.ast = NULL /\ f.error = "notFound"

\* ------------------------------------------------------------------------
\* A second call of parse on the same instance (C28)
\* ------------------------------------------------------------------------

\* the Store is the one a fresh handler has for some options
FreshStore ==
  \E options \in ParserOptions :
    LET h == HandlerFor(ProcessParserOptions(options))
    IN  /\ defaultMacros = h.defaultMacros
        /\ userProvidedMacros = h.userProvidedMacros
        /\ definedInDocMacros = EmptyRecord
        /\ inferredUsedMacros = EmptyRecord
        /\ ctanEnvs = h.ctanEnvs
        /\ userProvidedEnvs = h.userProvidedEnvs
        /\ definedInDocEnvs = EmptyRecord

\* the targets of include references of the current call that do not exist
MissingTargets == {t \in Paths : ReferencedBy(t) # {} /\ ~FileExists(t)}

StepOfFailedFile ==
  \/ pc = "loop" /\ failedFiles' # failedFiles
  \/ pc = "stage1" /\ 1 \in threw'
  \/ pc = "record" /\ 1 \in threw

\* C29: the processing of a file that cannot be read or whose raw parse fails
\* changes no category of the Store, enqueues nothing, records no include
\* reference and no global error; such a file has no include reference and
\* no push to its name at any time.
C29_FailedFileContributesNothing ==
  /\ [](\A p \in failedFiles :
          /\ \A t \in Paths : <<p, t>> \notin referenced
          /\ \A i \in 1..Len(enqueueLog) : enqueueLog[i].by # p)
  /\ [][StepOfFailedFile =>
          /\ UNCHANGED storeVars
          /\ enqueueLog' = enqueueLog
          /\ referenced' = referenced
          /\ projectGlobalErrors' = projectGlobalErrors
          /\ \/ filesToParseQueue' = filesToParseQueue
             \/ /\ filesToParseQueue # <<>>
                /\ filesToParseQueue' = Tail(filesToParseQueue)]_vars

\* one file could not be read and the raw parse of another failed, after a
\* file had registered a declaration; the run went on
C29_Witness ==
  /\ pc = "loop"
  /\ failedFiles \ Range(annotated) # {}
  /\ failedFiles \cap Range(annotated) # {}
  /\ definedInDocMacros # EmptyRecord

\* ------------------------------------------------------------------------
\* The configured categories of the Store (C30)
\* ------------------------------------------------------------------------

\* what processParserOptions resolves the options of the call to
Configured == ProcessParserOptions(initialParserOptions)

\* C30: from the moment parse turns to root determination, and so before any
\* file is processed, the user-provided commands and environments of the
\* Store are the tables resolved from the options of the call (the inline
\* table, else the table of the file), the default commands are the built-in
\* ones or none as the options say, and the standard environments are the
\* built-in ones; no later step of the run changes any of the four.
C30_ConfiguredCategoriesFixed ==
  /\ [](pc # "start" =>
          /\ userProvidedMacros = Configured.customMacroRecord
          /\ userProvidedEnvs = Configured.customEnvironmentRecord
          /\ defaultMacros = IF Configured.loadDefaultMacros
                             THEN DefaultMacroSignatures ELSE EmptyRecord
          /\ ctanEnvs = CtanEnvironments)
  /\ [][pc # "start" =>
          UNCHANGED <<defaultMacros, userProvidedMacros, ctanEnvs,
                      userProvidedEnvs, initialParserOptions>>]_vars

\* a call with an inline command table and an environment table from a file
\* has returned after its files registered declarations and inferences
C30_Witness ==
  /\ pc = "done"
  /\ initialParserOptions.customMacroRecord # None
  /\ initialParserOptions.envsFromFile # None
  /\ userProvidedMacros # EmptyRecord
  /\ userProvidedEnvs # EmptyRecord
  /\ definedInDocMacros # EmptyRecord
  /\ definedInDocEnvs # EmptyRecord

====
